---- MODULE Spec2Model ----
(***************************************************************************)
(* Navigation_Chatbot: the /api/chat handler, the per-session              *)
(* ConversationState, the search service (AND/OR search, strict filename   *)
(* gate, keyword relaxation) and the question service (option building).   *)
(*                                                                         *)
(* Strings of the program are abstract tokens.  A query is a sequence of   *)
(* keyword tokens (what _extract_keywords returns for it); a document      *)
(* carries the parsed hierarchy fields and the sets of tokens that occur   *)
(* in its searchable text and in its file name.  Chinese literals of the   *)
(* source are spelled in ASCII (the glossary is next to each table).       *)
(***************************************************************************)
EXTENDS Integers, Sequences, FiniteSets, TLC

\* ----------------------------------------------------------------- catalog
\* catalog : the ids of the documents the data loader has loaded
VARIABLE catalog

\* ------------------------------------------------------------------ bounds
MaxTurns == 3

\* ------------------------------------------------------------- generic helpers
Range(s) == {s[i] : i \in 1..Len(s)}

Max(a, b) == IF a >= b THEN a ELSE b

Min(a, b) == IF a <= b THEN a ELSE b

\* a sequence given as a function over 1..n, evaluated once and kept as a
\* tuple (the same sequence)
Stored(s) == s \o << >>


\* the subsequence of s whose elements satisfy membership in S, order kept
FilterSeq(s, S) == SelectSeq(s, LAMBDA x : x \in S)

\* s without later duplicates (first occurrence kept)
RECURSIVE DedupeInto(_, _)
DedupeInto(s, seen) ==
  IF s = << >> THEN seen
  ELSE DedupeInto(Tail(s), IF Head(s) \in Range(seen) THEN seen ELSE Append(seen, Head(s)))

Dedupe(s) == DedupeInto(s, << >>)

\* stable ascending sort of s by the parallel integer keys k
SortByKey(s, k) ==
  LET n == Len(s)
      Before(i, j) == k[i] < k[j] \/ (k[i] = k[j] /\ i < j)
      at(p) == CHOOSE i \in 1..n : Cardinality({j \in 1..n : Before(j, i)}) = p - 1
  IN Stored([p \in 1..n |-> s[at(p)]])

\* the first n elements of s (python s[:n])
Take(s, n) == IF n <= 0 THEN << >> ELSE SubSeq(s, 1, Min(n, Len(s)))

\* python s[n:]
Drop(s, n) == IF n >= Len(s) THEN << >> ELSE SubSeq(s, Max(n, 0) + 1, Len(s))

\* ------------------------------------------------------------------ tokens
\* Glossary: Dongfeng, Jiefang = brands; KL = series code; AirCon = a plain
\* word; CircuitDiagram = "dian lu tu"; DashDiagram = "yi biao tu";
\* PinDiagram = "zhen jiao tu"; Pin = "zhen jiao".
NoneStr == ""

BrandHintTokens == {"Dongfeng", "Jiefang"}

SeriesCodeTokens == {"KL"}

\* search_and_relax.generic_terms restricted to the tokens of the model
generic_terms == {"CircuitDiagram", "DashDiagram", "PinDiagram"}

\* tokens containing one of chat._is_explicit_type.type_hints
ChatTypeHintTokens == {"CircuitDiagram", "DashDiagram", "PinDiagram", "Pin", "VehicleDiagram"}

\* tokens containing one of the hints of search().explicit_type
SearchTypeHintTokens == {"DashDiagram", "PinDiagram", "Pin", "VehicleDiagram"}

\* tokens containing "tu" or "dian lu" (search(): has_diagram_word)
DiagramWordTokens == {"CircuitDiagram", "DashDiagram", "PinDiagram", "VehicleDiagram"}

\* tokens matching (zhen jiao|zhen jiao) in the current query
PinTokens == {"PinDiagram", "Pin"}

\* The atomic words a composite string of the model is made of; a string
\* without an entry is a single word.  a is a substring of b (after the
\* normalisation of _norm_text / HierarchyUtil._norm) iff every word of a
\* occurs in b.
Composite ==
  [ PinDiagram     |-> {"Pin", "PinDiagram"},
    VehicleDiagram |-> {"Vehicle", "CircuitDiagram"},
    KL_D310        |-> {"KL", "D310"},
    KL_D320        |-> {"KL", "D320"},
    KL_D310_series |-> {"KL", "D310", "series"},
    KL_D320_series |-> {"KL", "D320", "series"},
    DongfengKLseries |-> {"Dongfeng", "KL", "series"},
    JiefangKLseries  |-> {"Jiefang", "KL", "series"},
    DongfengKL       |-> {"Dongfeng", "KL"},
    DongfengRelated  |-> {"Dongfeng", "Related"},
    JiefangRelated   |-> {"Jiefang", "Related"},
    F1 |-> {"AirCon", "Pin", "PinDoc", "f1"},
    F2 |-> {"AirCon", "Pin", "PinDoc", "f2"},
    F3 |-> {"AirCon", "Heater", "AirConDoc", "f3"},
    F4 |-> {"Dongfeng", "KL", "D310", "CircuitDiagram", "VehicleDoc", "f4"},
    F5 |-> {"Dongfeng", "KL", "D320", "CircuitDiagram", "VehicleDoc", "f5"},
    F6 |-> {"Dongfeng", "KL", "D320", "CircuitDiagram", "VehicleDoc", "f6"},
    F7 |-> {"Dongfeng", "KL", "Tractor", "CircuitDiagram", "VehicleDoc", "f7"},
    F8 |-> {"Heater", "HeaterDoc", "f8"},
    F9 |-> {"Heater", "HeaterDoc", "f9"} ]

WordsOf(s) == IF s \in DOMAIN Composite THEN Composite[s] ELSE {s}

SubStr(a, b) == a # NoneStr /\ b # NoneStr /\ WordsOf(a) \subseteq WordsOf(b)

\* --------------------------------------------------------------- documents
\* CircuitDiagram with the fields _parse_hierarchy derives from the path and
\* the keys the extractors derive from the file name:
\*   vkeySeries / vkeyCode : variant_key_for_query under strategy A / B ("" = None)
\*   config      : the "axle role" name _extract_config_variants finds ("" = none)
\*   roleNoCfg   : a role variant whose file name has no _Dxxx segment
\*   levelValue  : the non-type path level after the brand ("" = none)
\*   seriesCode  : the 2-3 letter series code of the path or file name ("" = none)
\*   dcat        : the document category of the file name ("" = not classified)
\*   afterBrand  : the file name after the brand, 20 characters ("" = brand not in it)
\*   prefix15    : the first 15 characters of the file name
Doc(id, fn, path, b, m, t, c, vs, vc, cfg, role, lv, ser, dc, ab, px) ==
  [ id |-> id, file_name |-> fn, hierarchy_path |-> path, brand |-> b, model |-> m,
    diagram_type |-> t, vehicle_category |-> c, vkeySeries |-> vs, vkeyCode |-> vc,
    config |-> cfg, roleNoCfg |-> role, levelValue |-> lv, seriesCode |-> ser, dcat |-> dc,
    afterBrand |-> ab, prefix15 |-> px ]

\* the data set behind data_loader.get_all(), in score order
Catalog ==
  << Doc(1, "F1", << "CircuitDiagram", "DashDiagram", "Truck", "Dongfeng" >>,
         "Dongfeng", "", "DashDiagram", "Truck", "F1", "F1", "", FALSE, "", "", "PinDoc",
         "", "P1"),
     Doc(2, "F2", << "CircuitDiagram", "VehicleDiagram", "Truck", "Dongfeng" >>,
         "Dongfeng", "", "VehicleDiagram", "Truck", "F2", "F2", "", FALSE, "", "", "PinDoc",
         "", "P2"),
     Doc(3, "F3", << "CircuitDiagram", "VehicleDiagram" >>,
         "", "", "VehicleDiagram", "", "F3", "F3", "", FALSE, "", "", "AirConDoc",
         "", "P3"),
     Doc(4, "F4", << "CircuitDiagram", "VehicleDiagram", "Truck", "Dongfeng", "KL" >>,
         "Dongfeng", "KL", "VehicleDiagram", "Truck", "KL_D310", "F4", "", FALSE, "KL", "KL",
         "VehicleDoc", "KL_D310", "P4"),
     Doc(5, "F5", << "CircuitDiagram", "VehicleDiagram", "Truck", "Dongfeng", "KL" >>,
         "Dongfeng", "KL", "VehicleDiagram", "Truck", "KL_D320", "F5", "", FALSE, "KL", "KL",
         "VehicleDoc", "KL_D320", "P5"),
     Doc(6, "F6", << "CircuitDiagram", "VehicleDiagram", "Truck", "Dongfeng", "KL" >>,
         "Dongfeng", "KL", "VehicleDiagram", "Truck", "KL_D320", "F6", "", FALSE, "KL", "KL",
         "VehicleDoc", "KL_D320", "P6"),
     Doc(7, "F7", << "CircuitDiagram", "VehicleDiagram", "Truck", "Dongfeng", "KL" >>,
         "Dongfeng", "KL", "VehicleDiagram", "Truck", "", "F7", "Tractor", TRUE, "KL", "KL",
         "VehicleDoc", "KL_Tractor", "P7"),
     Doc(8, "F8", << "CircuitDiagram", "VehicleDiagram" >>,
         "", "", "VehicleDiagram", "", "F8", "F8", "", FALSE, "", "", "HeaterDoc",
         "", "P8"),
     Doc(9, "F9", << "CircuitDiagram", "VehicleDiagram" >>,
         "", "", "VehicleDiagram", "", "F9", "F9", "", FALSE, "", "", "HeaterDoc",
         "", "P8") >>

AllIds == 1..Len(Catalog)

\* a result list is a sequence of document ids
Ids(results) == Range(results)

\* SearchService._diagram_blob / HierarchyUtil._diagram_text_fields
_diagram_text_fields(d) ==
  ({d.file_name, d.brand, d.model, d.diagram_type, d.vehicle_category}
     \cup Range(d.hierarchy_path))
    \ {NoneStr}

\* SearchService._match_keyword: containment in the searchable text; the
\* generic keyword CircuitDiagram only counts in the file name.
_match_keyword(d, kw) ==
  IF kw = "CircuitDiagram"
    THEN SubStr(kw, d.file_name)
    ELSE \E f \in _diagram_text_fields(d) : SubStr(kw, f)

\* HierarchyUtil._any_contains: needle in field, or field in needle
_any_contains(fields, needle) ==
  \E h \in fields : SubStr(needle, h) \/ SubStr(h, needle)

\* a faulty brand filter, for comparison: it selects from the whole catalog
\* instead of the given results (C3 does not survive it)
filter_by_brand_whole_catalog(results, brand) ==
  IF brand = NoneStr THEN results
  ELSE SelectSeq(Stored([i \in 1..Len(Catalog) |-> i]), LAMBDA i :
         \/ (Catalog[i].brand # NoneStr
               /\ (SubStr(brand, Catalog[i].brand) \/ SubStr(Catalog[i].brand, brand)))
         \/ _any_contains(_diagram_text_fields(Catalog[i]), brand))

\* HierarchyUtil.filter_by_brand: the parsed brand contains or is contained
\* in the wanted one, or some text field is
filter_by_brand(results, brand) ==
  IF brand = NoneStr THEN results
  ELSE SelectSeq(results, LAMBDA i :
         \/ (Catalog[i].brand # NoneStr
               /\ (SubStr(brand, Catalog[i].brand) \/ SubStr(Catalog[i].brand, brand)))
         \/ _any_contains(_diagram_text_fields(Catalog[i]), brand))

filter_by_model(results, model) ==
  IF model = NoneStr THEN results
  ELSE SelectSeq(results, LAMBDA i :
         \/ (Catalog[i].model # NoneStr /\ SubStr(model, Catalog[i].model))
         \/ \E h \in _diagram_text_fields(Catalog[i]) : SubStr(model, h))

filter_by_diagram_type(results, t) ==
  IF t = NoneStr THEN results
  ELSE SelectSeq(results, LAMBDA i :
         \/ (Catalog[i].diagram_type # NoneStr
               /\ (SubStr(t, Catalog[i].diagram_type) \/ SubStr(Catalog[i].diagram_type, t)))
         \/ _any_contains(_diagram_text_fields(Catalog[i]), t))

\* SearchService.filter_by_hierarchy(results, brand, model, diagram_type)
filter_by_hierarchy(results, brand, model, t) ==
  filter_by_diagram_type(filter_by_model(filter_by_brand(results, brand), model), t)

\* SearchService.deduplicate_results: one entry per id, first position kept
deduplicate_results(results) == Dedupe(results)

\* ------------------------------------------------------------ search service
\* IntentResult (brand, diagram_type, original_query); "" is None
IntentResult(b, t, q) == [brand |-> b, diagram_type |-> t, original_query |-> q]

NoIntent == IntentResult(NoneStr, NoneStr, << >>)

\* _extract_keywords followed by the normalised de-duplication of its callers:
\* the query is the sequence of its keywords
_extract_keywords(query) == Dedupe(SelectSeq(query, LAMBDA t : t # NoneStr))

\* "yi biao" in type_keyword: the type is injected as DashDiagram
IsDashType(t) == SubStr("DashDiagram", t)

\* intent.original_query when the intent has one, else the query
OriginalQuery(query, intent) ==
  IF intent.original_query # << >> THEN intent.original_query ELSE query

\* the type keyword tk appended unless a keyword names it already ("yi biao"
\* in tk: the type is injected as DashDiagram)
InjectType(kws, tk, has_dash) ==
  IF tk # NoneStr /\ ~has_dash
       /\ ~\E i \in 1..Len(kws) : SubStr(tk, kws[i]) \/ SubStr(kws[i], tk)
    THEN Append(kws, IF IsDashType(tk) THEN "DashDiagram" ELSE tk)
    ELSE kws

\* the brand keyword bk put in front unless a keyword names it already
InjectBrand(kws, bk) ==
  IF bk # NoneStr /\ ~\E i \in 1..Len(kws) : SubStr(bk, kws[i]) \/ SubStr(kws[i], bk)
    THEN << bk >> \o kws
    ELSE kws

\* SearchKeywords, once kws is known
SearchKeywords_kws(intent, oq, kws) ==
  InjectBrand(IF \E i \in 1..Len(oq) : oq[i] \in SearchTypeHintTokens
                THEN InjectType(kws, intent.diagram_type,
                                \E i \in 1..Len(kws) : SubStr("DashDiagram", kws[i]))
                ELSE kws,
              intent.brand)

\* SearchKeywords, once oq is known
SearchKeywords_oq(intent, oq) ==
  SearchKeywords_kws(intent, oq, _extract_keywords(oq))

\* the keyword list of search(): keywords of the original query, the type
\* injected only when the raw query names a type, the brand put in front
SearchKeywords(query, intent) ==
  SearchKeywords_oq(intent, OriginalQuery(query, intent))

\* the keywords the queries, the brand hints and the injected brand / type carry
KeywordTokens ==
  { "AirCon", "Dongfeng", "DashDiagram", "Pin", "KL", "CircuitDiagram", "Heater",
    "Unknown", "Jiefang", "Find" }

\* the documents each keyword matches, computed once over the catalog
term_index ==
  [t \in KeywordTokens |-> {i \in AllIds : _match_keyword(Catalog[i], t)}] @@ [t \in {} |-> {}]

\* ids of the loaded documents a term matches anywhere in the searchable text
term_to_ids(term) ==
  IF term \in KeywordTokens THEN term_index[term] \cap catalog
  ELSE {i \in catalog : _match_keyword(Catalog[i], term)}

\* the ids in catalog (score) order
InScoreOrder(S) == SelectSeq(Stored([i \in 1..Len(Catalog) |-> i]), LAMBDA i : i \in S)

\* search, once series_and_diagram is known
search_series_and_diagram(logic, kws, series_and_diagram) ==
  InScoreOrder({i \in AllIds :
     /\ IF logic = "AND"
          THEN \A k \in 1..Len(kws) : i \in term_to_ids(kws[k])
          ELSE \E k \in 1..Len(kws) : i \in term_to_ids(kws[k])
     /\ ~(series_and_diagram /\ Catalog[i].roleNoCfg)})

\* search, once kws is known
search_kws(logic, kws) ==
  IF kws = << >> THEN << >>
  ELSE search_series_and_diagram(logic, kws,
                                 logic = "AND" /\ (\E k \in 1..Len(kws) : kws[k] \in SeriesCodeTokens)
                                   /\ (\E k \in 1..Len(kws) : kws[k] \in DiagramWordTokens))

\* SearchService.search (through search_with_intent), max_results = 1000
search(query, logic, intent) ==
  search_kws(logic, SearchKeywords(query, intent))

\* SearchService.strict_filename_and_stats: term_counts and and_count over
\* the file names only, for the keywords of the user-visible query
strict_terms(query) == _extract_keywords(query)

strict_term_count(term) == Cardinality({i \in AllIds : SubStr(term, Catalog[i].file_name)})

strict_and_count(query) ==
  LET kws == strict_terms(query)
  IN IF kws = << >> THEN 0
     ELSE Cardinality({i \in AllIds :
            \A k \in 1..Len(kws) : SubStr(kws[k], Catalog[i].file_name)})

\* the keyword list of search_and_relax(): brand injected first, then the
\* type (without the explicit-type test of search())
RelaxKeywords(query, intent) ==
  InjectType(InjectBrand(_extract_keywords(OriginalQuery(query, intent)), intent.brand),
             intent.diagram_type, FALSE)

intersect_ids(terms) ==
  IF terms = << >> THEN {}
  ELSE {i \in AllIds : \A k \in 1..Len(terms) : i \in term_to_ids(terms[k])}

\* words of search_and_relax.brand_hints
RelaxBrandHintWords == {"Dongfeng", "Jiefang", "Tianlong"}

protected(t) ==
  \/ \E h \in RelaxBrandHintWords : SubStr(h, t)
  \/ t \in SeriesCodeTokens

\* LastIn, once idx is known
LastIn_idx(s, idx) ==
  IF idx = {} THEN NoneStr ELSE s[CHOOSE i \in idx : \A j \in idx : j <= i]

\* the last element of s satisfying membership in S, or "" (None)
LastIn(s, S) ==
  LastIn_idx(s, {i \in 1..Len(s) : s[i] \in S})

\* pick_from_tail_prefer_generic, once g is known
pick_from_tail_prefer_generic_g(remaining, g) ==
  IF g # NoneStr THEN g
  ELSE LastIn(remaining, {t \in Range(remaining) : ~protected(t)})

\* nothing is picked: the round drops the last term
pick_from_tail_prefer_generic_none(remaining) == NoneStr

pick_from_tail_prefer_generic(remaining) ==
  pick_from_tail_prefer_generic_g(remaining,
                                  LastIn(remaining, {t \in Range(remaining) : t \in generic_terms /\ ~protected(t)}))

\* combinability: with how many other remaining terms a term shares a document
combo_count(remaining, i) ==
  Cardinality({j \in 1..Len(remaining) :
     j # i /\ term_to_ids(remaining[i]) \cap term_to_ids(remaining[j]) # {}})

\* the term to drop among the least combinable ones
DropAmong(remaining, candidates) ==
  IF candidates \cap generic_terms # {}
    THEN LastIn(remaining, candidates \cap generic_terms)
  ELSE IF \E t \in candidates : ~protected(t)
    THEN LastIn(remaining, {t \in candidates : ~protected(t)})
  ELSE remaining[Len(remaining)]

\* RelaxDrop, once p is known
RelaxDrop_p(remaining, p) ==
  IF p # NoneStr THEN p ELSE remaining[Len(remaining)]

\* RelaxDrop, once combo is known
RelaxDrop_combo(remaining, combo) ==
  DropAmong(remaining,
            {remaining[i] : i \in {j \in 1..Len(remaining) :
                                     \A k \in 1..Len(remaining) : combo[j] <= combo[k]}})

\* a round that drops a term that is not among the remaining ones
RelaxDrop_nothing(remaining) == NoneStr

\* the term one round of the relaxation loop drops
RelaxDrop(remaining) ==
  IF Len(remaining) > 3
    THEN RelaxDrop_combo(remaining,
                         Stored([i \in 1..Len(remaining) |-> combo_count(remaining, i)]))
    ELSE RelaxDrop_p(remaining, pick_from_tail_prefer_generic(remaining))

RECURSIVE RelaxLoop(_, _)
\* RelaxLoop, once drop is known
RelaxLoop_drop(remaining, removed, drop) ==
  RelaxLoop(SelectSeq(remaining, LAMBDA t : t # drop), Append(removed, drop))

\* step 2 of search_and_relax: drop terms until something is hit or one is left
RelaxLoop(remaining, removed) ==
  IF intersect_ids(remaining) # {} \/ Len(remaining) <= 1
    THEN [remaining |-> remaining, removed |-> removed]
    ELSE RelaxLoop_drop(remaining, removed, RelaxDrop(remaining))

\* step 1 of search_and_relax: zero-hit and force-removed terms leave; a
\* removed PinDiagram is replaced by the wider Pin
RECURSIVE ZeroPass(_, _, _, _)
ZeroPass(remaining, zero_terms, new_remaining, removed) ==
  IF remaining = << >> THEN [remaining |-> new_remaining, removed |-> removed]
  ELSE IF Head(remaining) \notin zero_terms
    THEN ZeroPass(Tail(remaining), zero_terms, Append(new_remaining, Head(remaining)),
                  removed)
    ELSE ZeroPass(Tail(remaining), zero_terms,
           IF Head(remaining) = "PinDiagram" /\ "Pin" \notin Range(new_remaining)
             THEN Append(new_remaining, "Pin") ELSE new_remaining,
           Append(removed, Head(remaining)))

\* search_and_relax, once r is known
search_and_relax_r(kws, r) ==
  [ results |-> InScoreOrder(intersect_ids(r.remaining)),
    meta |-> [ original_keywords |-> kws, used_keywords |-> r.remaining,
               removed_keywords |-> r.removed ] ]

\* search_and_relax, once z is known
search_and_relax_z(kws, z) ==
  search_and_relax_r(kws, RelaxLoop(z.remaining, z.removed))

\* search_and_relax, once kws is known
search_and_relax_kws(force_remove_terms, kws) ==
  search_and_relax_z(kws,
                     ZeroPass(kws,
                              {t \in Range(kws) : term_to_ids(t) = {}}
                                \cup (Range(force_remove_terms) \cap Range(kws)),
                              << >>, << >>))

\* SearchService.search_and_relax: (results, meta)
search_and_relax(query, intent, force_remove_terms) ==
  search_and_relax_kws(force_remove_terms, RelaxKeywords(query, intent))

\* ---------------------------------------------------------- question service
\* an option before formatting: name, count and, when the extractor tracks
\* them, the exact ids of its bucket
Opt(name, count, hasIds, ids) == [name |-> name, count |-> count, hasIds |-> hasIds, ids |-> ids]

\* Glossary of option names: OtherNoBrand = "other (brand not labelled)",
\* OtherNoModel, OtherNoCategory, OtherNoBrandModel, OtherNoType likewise;
\* OtherMore = "other (unclassified / more)".
\* python's string order of the option names, for sorts by (-count, name)
NameOrder ==
  << "AirConDoc", "CircuitDiagram", "Dongfeng", "DongfengKLseries", "DongfengKL", "DashDiagram",
     "F1", "F2", "F3", "F4", "F5", "F6", "F7", "F8", "F9", "HeaterDoc", "Jiefang", "JiefangKLseries", "KL",
     "KL_D310_series", "KL_D320_series", "PinDoc", "Tractor", "Truck",
     "VehicleDiagram", "VehicleDoc",
     "OtherNoBrand", "OtherNoModel", "OtherNoCategory", "OtherNoBrandModel",
     "OtherNoType", "OtherMore" >>

NameRank(n) ==
  IF \E i \in 1..Len(NameOrder) : NameOrder[i] = n
    THEN CHOOSE i \in 1..Len(NameOrder) : NameOrder[i] = n
    ELSE 0

\* sort options by count descending, stable (python sort with reverse=True)
SortByCount(opts) == SortByKey(opts, Stored([i \in 1..Len(opts) |-> 0 - opts[i].count]))

\* sort options by (-count, name)
SortByCountName(opts) ==
  SortByKey(opts, Stored([i \in 1..Len(opts) |->
                     (0 - opts[i].count) * (Len(NameOrder) + 1) + NameRank(opts[i].name)]))

\* Buckets, once names is known
Buckets_names(results, key, names) ==
  Stored([p \in 1..Len(names) |->
     Opt(names[p], Cardinality({i \in Ids(results) : key[i] = names[p]}), TRUE,
         {i \in Ids(results) : key[i] = names[p]})])

\* the buckets of results under key (a function id -> name, "" = skipped),
\* in order of first appearance, each with its ids
Buckets(results, key) ==
  Buckets_names(results, key,
                Dedupe(SelectSeq(Stored([i \in 1..Len(results) |-> key[results[i]]]),
                                 LAMBDA n : n # NoneStr)))

\* the same buckets with the ids forgotten (extractors that only count)
CountOnly(opts) == Stored([p \in 1..Len(opts) |-> Opt(opts[p].name, opts[p].count, FALSE, {})])

\* "k series" for a variant key k
SeriesNames == [KL_D310 |-> "KL_D310_series", KL_D320 |-> "KL_D320_series"]

WithSeries(k) == IF k \in DOMAIN SeriesNames THEN SeriesNames[k] ELSE k

\* the option value with a trailing " series" removed (chat.py, variant branch)
StripSeries(name) ==
  IF \E k \in DOMAIN SeriesNames : SeriesNames[k] = name
    THEN CHOOSE k \in DOMAIN SeriesNames : SeriesNames[k] = name
    ELSE name

\* current_query matches [A-Z]{2,3}; the queries of the model carry no ECU code
HasSeriesCode(query) == \E i \in 1..Len(query) : query[i] \in SeriesCodeTokens

HasDiagramKw(query) == \E i \in 1..Len(query) : SubStr("CircuitDiagram", query[i])

\* variant_util.variant_key_for_query
variant_key_for_query(d, query) ==
  IF HasSeriesCode(query) THEN d.vkeySeries ELSE d.vkeyCode

_extract_variant_options(results, max_options, query) ==
  LET b == Buckets(results, Stored([i \in AllIds |-> variant_key_for_query(Catalog[i], query)]))
      named == Stored([p \in 1..Len(b) |-> Opt(WithSeries(b[p].name), b[p].count, FALSE, {})])
  IN Take(SortByCount(named), max_options)

_extract_config_variants(results, max_options) ==
  Take(SortByCountName(CountOnly(Buckets(results, Stored([i \in AllIds |-> Catalog[i].config])))),
       max_options)

\* "brand model", brand or model, as HierarchyUtil.extract_options and
\* _finalize_options_with_ids name a brand_model bucket
BrandModelNames == [Dongfeng |-> [KL |-> "DongfengKL"]]

BrandModelKey(d) ==
  IF d.brand # NoneStr /\ d.model # NoneStr
    THEN IF d.brand \in DOMAIN BrandModelNames /\ d.model \in DOMAIN BrandModelNames[d.brand]
           THEN BrandModelNames[d.brand][d.model] ELSE d.model
  ELSE IF d.brand # NoneStr THEN d.brand
  ELSE d.model

FieldKey(option_type, d) ==
  CASE option_type = "brand" -> d.brand
    [] option_type = "model" -> d.model
    [] option_type = "type" -> d.diagram_type
    [] option_type = "category" -> d.vehicle_category
    [] option_type = "brand_model" -> BrandModelKey(d)
    [] OTHER -> NoneStr

\* HierarchyUtil.extract_options: counts per parsed field, no ids
extract_options(results, option_type, max_options) ==
  Take(SortByCountName(CountOnly(
         Buckets(results, Stored([i \in AllIds |-> FieldKey(option_type, Catalog[i])])))),
       max_options)

_extract_brand_model_options(results, max_options) ==
  extract_options(results, "brand_model", max_options)

Placeholder(option_type) ==
  CASE option_type = "brand" -> "OtherNoBrand"
    [] option_type = "model" -> "OtherNoModel"
    [] option_type = "category" -> "OtherNoCategory"
    [] option_type = "brand_model" -> "OtherNoBrandModel"
    [] OTHER -> "OtherNoType"

_extract_disjoint_type_options(results, max_options) ==
  LET key == Stored([i \in AllIds |-> IF Catalog[i].diagram_type = NoneStr
                                 THEN "OtherNoType" ELSE Catalog[i].diagram_type])
  IN Take(SortByCountName(Buckets(results, key)), Max(1, max_options * 5))

\* "{display_brand} {code} series" / "{display_brand} {level}"
SeriesOptionNames == [Dongfeng |-> [KL |-> "DongfengKLseries"],
                      Jiefang  |-> [KL |-> "JiefangKLseries"]]

HierName(display_brand, x) ==
  IF display_brand \in DOMAIN SeriesOptionNames /\ x \in DOMAIN SeriesOptionNames[display_brand]
    THEN SeriesOptionNames[display_brand][x]
    ELSE x

\* the brand shown in a hierarchy option: the user's brand, else the document's
DisplayBrand(d, user_brand) ==
  IF user_brand # NoneStr THEN user_brand
  ELSE IF d.brand # NoneStr THEN d.brand ELSE "Dongfeng"

\* the option name _extract_options_from_hierarchy derives for one document
\* ("" = the document contributes to no named bucket)
HierarchyKey(d, user_brand) ==
  LET brand_found == \/ (user_brand # NoneStr
                           /\ \E level \in Range(d.hierarchy_path) : SubStr(user_brand, level))
                     \/ d.brand # NoneStr
  IN IF ~brand_found \/ d.levelValue = NoneStr THEN NoneStr
     ELSE IF d.seriesCode # NoneStr THEN HierName(DisplayBrand(d, user_brand), d.seriesCode)
     ELSE IF d.levelValue # d.brand THEN HierName(DisplayBrand(d, user_brand), d.levelValue)
     ELSE NoneStr

\* _extract_options_from_hierarchy, once remaining_ids is known
_extract_options_from_hierarchy_remaining_ids(max_options, chosen, remaining_ids) ==
  Take(SortByCount(IF remaining_ids # {}
                     THEN Append(chosen, Opt("OtherMore", Cardinality(remaining_ids), TRUE,
                                             remaining_ids))
                     ELSE chosen),
       max_options)

\* _extract_options_from_hierarchy, once chosen is known
_extract_options_from_hierarchy_chosen(results, max_options, chosen) ==
  _extract_options_from_hierarchy_remaining_ids(max_options, chosen,
                                                Ids(results) \ UNION {chosen[p].ids : p \in 1..Len(chosen)})

\* QuestionService._extract_options_from_hierarchy: named buckets with ids,
\* one slot reserved for the "other" bucket that closes the coverage
_extract_options_from_hierarchy(results, max_options, user_brand) ==
  _extract_options_from_hierarchy_chosen(results, max_options,
                                         Take(SortByCount(Buckets(results,
                                                Stored([i \in AllIds |-> HierarchyKey(Catalog[i], user_brand)]))),
                                              IF max_options >= 3 THEN max_options - 1 ELSE max_options))

\* _extract_series_codes_aggressive: series codes of any path level, counted
_extract_series_codes_aggressive(results, max_options, user_brand) ==
  LET key == Stored([i \in AllIds |->
                IF Catalog[i].seriesCode = NoneStr THEN NoneStr
                ELSE HierName(DisplayBrand(Catalog[i], user_brand), Catalog[i].seriesCode)])
  IN Take(SortByCount(CountOnly(Buckets(results, key))), max_options)

\* _extract_series_from_filenames: series codes after the brand in the file name
_extract_series_from_filenames(results, max_options, user_brand) ==
  LET key == Stored([i \in AllIds |->
                IF Catalog[i].seriesCode # NoneStr
                     /\ SubStr(DisplayBrand(Catalog[i], user_brand), Catalog[i].file_name)
                     /\ SubStr(Catalog[i].seriesCode, Catalog[i].file_name)
                  THEN HierName(DisplayBrand(Catalog[i], user_brand), Catalog[i].seriesCode)
                  ELSE NoneStr])
  IN Take(SortByCount(CountOnly(Buckets(results, key))), max_options)

\* _extract_document_category_options: buckets by file-name category with ids
_extract_document_category_options(results, max_options) ==
  Take(SortByCount(Buckets(results, Stored([i \in AllIds |-> Catalog[i].dcat]))), max_options * 2)

\* OptimizeStep, once rest is known
OptimizeStep_rest(same, sum, rest) ==
  IF same # {} THEN rest ELSE Append(rest, sum)

\* OptimizeStep, once kept is known
OptimizeStep_kept(merged, p, same, sum, kept) ==
  OptimizeStep_rest(same, sum,
                    Stored([q \in 1..(Len(merged) - 1) |->
                       IF q < p THEN kept[q] ELSE kept[q + 1]]))

\* OptimizeStep, once sum is known
OptimizeStep_sum(merged, p, same, sum) ==
  OptimizeStep_kept(merged, p, same, sum,
                    Stored([q \in 1..Len(merged) |-> IF q \in same THEN sum ELSE merged[q]]))

\* QuestionService.optimize_options: names contained in a later name are
\* replaced by it (counts added), equal names are added up; no ids survive.
\* One option o folded into the merged list: p is the first existing name
\* that is a proper part of the new name (0 = none).
OptimizeStep(o, merged, p, same) ==
  IF p # 0
    THEN OptimizeStep_sum(merged, p, same, Opt(o.name, merged[p].count + o.count, FALSE, {}))
  ELSE IF same # {}
    THEN Stored([q \in 1..Len(merged) |->
            IF q \in same THEN Opt(o.name, merged[q].count + o.count, FALSE, {})
            ELSE merged[q]])
  ELSE Append(merged, Opt(o.name, o.count, FALSE, {}))

\* FirstPart, once hit is known
FirstPart_hit(hit) ==
  IF hit = {} THEN 0 ELSE CHOOSE x \in hit : \A y \in hit : x <= y

FirstPart(o, merged) ==
  FirstPart_hit({p \in 1..Len(merged) :
                   ~SubStr(o.name, merged[p].name) /\ SubStr(merged[p].name, o.name)})

RECURSIVE OptimizeFold(_, _)
OptimizeFold(options, merged) ==
  IF options = << >> THEN merged
  ELSE OptimizeFold(Tail(options),
         OptimizeStep(Head(options), merged, FirstPart(Head(options), merged),
                      {p \in 1..Len(merged) : merged[p].name = Head(options).name}))

optimize_options(options, max_options) ==
  IF options = << >> THEN << >>
  ELSE Take(SortByCount(OptimizeFold(options, << >>)), max_options)

\* MergeByName, once ids is known
MergeByName_ids(p, names, ids) ==
  Opt(names[p], Cardinality(ids), TRUE, ids)

\* MergeByName, once names is known
MergeByName_names(options, names) ==
  Stored([p \in 1..Len(names) |->
     MergeByName_ids(p, names,
                     UNION {options[q].ids : q \in {r \in 1..Len(options) :
                                                       options[r].name = names[p]}})])

\* merge options that carry ids by name (first appearance kept)
MergeByName(options) ==
  MergeByName_names(options, Dedupe(Stored([p \in 1..Len(options) |-> options[p].name])))

\* CloseCoverage, once rest is known
CloseCoverage_rest(max_options, head, rest) ==
  Take(SortByCountName(IF rest # {} /\ max_options >= 3
                         THEN Append(head, Opt("OtherMore", Cardinality(rest), TRUE, rest))
                         ELSE head),
       max_options)

\* CloseCoverage, once head is known
CloseCoverage_head(all_ids, max_options, head) ==
  CloseCoverage_rest(max_options, head, all_ids \ UNION {head[p].ids : p \in 1..Len(head)})

\* the options cut to max_options, the last slot given to the "other"
\* bucket that holds every candidate the kept options leave out
CloseCoverage(items, all_ids, max_options) ==
  CloseCoverage_head(all_ids, max_options,
                     Take(items, IF max_options >= 3 THEN max_options - 1 ELSE max_options))

\* the name _finalize_options_with_ids files a document under
FinalKey(option_type, d) ==
  IF FieldKey(option_type, d) = NoneStr THEN Placeholder(option_type)
  ELSE FieldKey(option_type, d)

\* _finalize_options_with_ids, once items is known
_finalize_options_with_ids_items(results, max_options, items) ==
  IF Len(items) <= max_options THEN items
  ELSE CloseCoverage(items, Ids(results), max_options)

\* QuestionService._finalize_options_with_ids
_finalize_options_with_ids(option_type, options, results, max_options) ==
  IF options = << >> THEN << >>
  ELSE IF (\A p \in 1..Len(options) : ~options[p].hasIds)
            /\ option_type \notin {"brand", "model", "category", "brand_model", "type"}
    THEN optimize_options(options, max_options)
  ELSE IF max_options <= 0 THEN << >>
  ELSE _finalize_options_with_ids_items(results, max_options,
                                        SelectSeq(SortByCountName(
                                                    IF \E p \in 1..Len(options) : options[p].hasIds
                                                      THEN MergeByName(options)
                                                      ELSE Buckets(results,
                                                             Stored([i \in AllIds |-> FinalKey(option_type, Catalog[i])]))),
                                                  LAMBDA it : it.ids # Ids(results)))

\* QuestionService._make_option_labels: A, B, C, ...
option_labels == << "A", "B", "C", "D", "E", "F", "G", "H", "I", "J" >>

\* a formatted option as stored in current_options and sent to the client;
\* hasIds is FALSE when the "ids" entry is missing or None, id is 0 when the
\* option has no "id" entry
FormattedOption(i, name, count, type, hasIds, ids, id) ==
  [ label |-> option_labels[i], name |-> name, count |-> count, type |-> type,
    hasIds |-> hasIds, ids |-> ids, id |-> id ]

\* the formatting loop at the end of generate_question
FormatOptions(options, option_type, max_options) ==
  LET shown == Take(options, max_options)
  IN Stored([i \in 1..Len(shown) |->
        FormattedOption(i, shown[i].name, shown[i].count, option_type,
                        shown[i].hasIds, shown[i].ids, 0)])

\* the formatting of the last fallback of generate_question: no "ids" entry
FormatOptionsNoIds(options, option_type, max_options) ==
  LET shown == Take(options, max_options)
  IN Stored([i \in 1..Len(shown) |->
        FormattedOption(i, shown[i].name, shown[i].count, option_type, FALSE, {}, 0)])

NoQuestion == [ok |-> FALSE, options |-> << >>, option_type |-> NoneStr]

Question(options, option_type) == [ok |-> TRUE, options |-> options, option_type |-> option_type]

\* _extract_type_variants collects path levels longer than five characters;
\* the catalog has none
_extract_type_variants(results, max_options) == << >>

\* the order in which generate_question tries the dimensions
OptionTypes(results, excluded_types, current_query) ==
  LET base == IF "brand" \in excluded_types /\ "type" \in excluded_types
                THEN << "brand_model", "config" >>
              ELSE IF "brand" \in excluded_types
                THEN << "brand_model", "config", "model", "type", "category" >>
              ELSE << "brand_model", "brand", "config", "model", "type", "category" >>
      withVariant == IF HasDiagramKw(current_query) /\ HasSeriesCode(current_query)
                          /\ "variant" \notin excluded_types
                       THEN << "variant" >> \o base ELSE base
      allowed == SelectSeq(withVariant, LAMBDA t : t \notin excluded_types)
      unique_types == {Catalog[i].diagram_type : i \in Ids(results)} \ {NoneStr}
  IN IF Cardinality(unique_types) <= 1
       THEN SelectSeq(allowed, LAMBDA t : t # "type") ELSE allowed

\* FirstOptions, once a is known
FirstOptions_a(results, min_options, max_options, user_brand, a) ==
  IF Len(a) >= min_options THEN a
  ELSE _extract_series_from_filenames(results, max_options, user_brand)

\* what the extractor of option_type finds; hier are the buckets of
\* _extract_options_from_hierarchy
FirstOptions(option_type, hier, results, min_options, max_options, excluded_types, current_query, user_brand) ==
  CASE option_type = "variant" ->
         _extract_variant_options(results, max_options, current_query)
    [] option_type = "brand_model" ->
         IF Len(hier) >= min_options THEN hier
         ELSE IF ~("brand" \in excluded_types /\ "type" \in excluded_types)
           THEN _extract_brand_model_options(results, max_options)
         ELSE FirstOptions_a(results, min_options, max_options, user_brand,
                             _extract_series_codes_aggressive(results, max_options, user_brand))
    [] option_type = "type" -> _extract_disjoint_type_options(results, max_options)
    [] option_type = "config" -> _extract_config_variants(results, max_options)
    [] OTHER -> extract_options(results, option_type, max_options)

\* DimensionOptions, once first is known
DimensionOptions_first(option_type, results, min_options, max_options, hier, first) ==
  LET short == Len(first) < min_options
      useHier == short /\ option_type \in {"brand", "model", "category"}
                   /\ Len(hier) >= min_options
      type == IF useHier THEN "brand_model" ELSE option_type
  IN [ options |->
         _finalize_options_with_ids(type,
           IF ~short THEN first
           ELSE IF option_type = "brand_model" THEN hier
           ELSE IF option_type = "type" THEN _extract_type_variants(results, max_options)
           ELSE IF useHier THEN hier
           ELSE first,
           results, max_options),
       option_type |-> type ]

\* DimensionOptions, once hier is known
DimensionOptions_hier(option_type, results, min_options, max_options, excluded_types, current_query, user_brand, hier) ==
  DimensionOptions_first(option_type, results, min_options, max_options, hier,
                         FirstOptions(option_type, hier, results, min_options, max_options, excluded_types,
                                      current_query, user_brand))

\* one round of the loop of generate_question for option_type: the options
\* after extraction, fallback and _finalize_options_with_ids, and the type
\* they are offered under
DimensionOptions(option_type, results, min_options, max_options, excluded_types, current_query, user_brand) ==
  DimensionOptions_hier(option_type, results, min_options, max_options, excluded_types,
                        current_query, user_brand,
                        _extract_options_from_hierarchy(results, max_options, user_brand))

RECURSIVE TryDimensions(_, _, _, _, _, _, _)
\* TryDimensions, once d is known
TryDimensions_d(option_types, results, min_options, max_options, excluded_types, current_query, user_brand, d) ==
  IF Len(d.options) >= min_options
    THEN Question(FormatOptions(d.options, d.option_type, max_options), d.option_type)
    ELSE TryDimensions(Tail(option_types), results, min_options, max_options,
                       excluded_types, current_query, user_brand)

TryDimensions(option_types, results, min_options, max_options, excluded_types, current_query, user_brand) ==
  IF option_types = << >> THEN NoQuestion
  ELSE TryDimensions_d(option_types, results, min_options, max_options, excluded_types,
                       current_query, user_brand,
                       DimensionOptions(Head(option_types), results, min_options, max_options,
                                        excluded_types, current_query, user_brand))

\* DocumentCategoryQuestion, once docFinal is known
DocumentCategoryQuestion_docFinal(min_options, max_options, docFinal) ==
  IF Len(docFinal) >= min_options
    THEN Question(FormatOptions(docFinal, "document_category", max_options),
                  "document_category")
    ELSE NoQuestion

\* DocumentCategoryQuestion, once doc is known
DocumentCategoryQuestion_doc(results, min_options, max_options, doc) ==
  IF Len(doc) < min_options THEN NoQuestion
  ELSE DocumentCategoryQuestion_docFinal(min_options, max_options,
                                         _finalize_options_with_ids("document_category", doc, results, max_options))

\* the question over the document categories of the file names, for six
\* candidates or more
DocumentCategoryQuestion(results, min_options, max_options) ==
  IF Len(results) < 6 THEN NoQuestion
  ELSE DocumentCategoryQuestion_doc(results, min_options, max_options,
                                    _extract_document_category_options(results, max_options))

\* DimensionQuestion, once fallback_options is known
DimensionQuestion_fallback_options(min_options, max_options, fallback_options) ==
  IF Len(fallback_options) >= min_options
    THEN Question(FormatOptionsNoIds(fallback_options, "brand_model",
                                     max_options),
                  "brand_model")
    ELSE NoQuestion

\* DimensionQuestion, once tried is known
DimensionQuestion_tried(results, min_options, max_options, user_brand, tried) ==
  IF tried.ok THEN tried
  ELSE DimensionQuestion_fallback_options(min_options, max_options,
                                          _extract_options_from_hierarchy(results, max_options, user_brand))

\* the loop over the dimensions and the fallback after it
DimensionQuestion(option_types, results, min_options, max_options, excluded_types, current_query, user_brand) ==
  IF option_types = << >> THEN NoQuestion
  ELSE DimensionQuestion_tried(results, min_options, max_options, user_brand,
                               TryDimensions(option_types, results, min_options, max_options, excluded_types,
                                             current_query, user_brand))

\* generate_question, once by_category is known
generate_question_by_category(results, min_options, max_options, excluded_types, current_query, user_brand, by_category) ==
  IF by_category.ok THEN by_category
  ELSE DimensionQuestion(OptionTypes(results, excluded_types, current_query), results,
                         min_options, max_options, excluded_types, current_query,
                         user_brand)

\* QuestionService.generate_question.  The catalog holds fewer than ten
\* documents, so the file-name-prefix merging of ten or more options
\* (_merge_filename_prefixes, merge_similar_options) never applies.
generate_question(results, min_options, max_options, excluded_types, current_query, user_brand) ==
  IF Len(results) < min_options THEN NoQuestion
  ELSE generate_question_by_category(results, min_options, max_options, excluded_types,
                                     current_query, user_brand,
                                     DocumentCategoryQuestion(results, min_options, max_options))

\* ------------------------------------------------------- conversation state
\* ConversationStateEnum
INITIAL == "initial"

SEARCHING == "searching"

NEEDS_CHOICE == "needs_choice"

NEEDS_CONFIRM == "needs_confirm"

FILTERING == "filtering"

COMPLETED == "completed"

ConversationStateEnum == {INITIAL, SEARCHING, NEEDS_CHOICE, NEEDS_CONFIRM, FILTERING, COMPLETED}

\* the depth of the undo stack
MaxSnapshots == 10

\* relax_meta = None
NoMeta ==
  [ some |-> FALSE, original_keywords |-> << >>, used_keywords |-> << >>,
    removed_keywords |-> << >> ]

RelaxMeta(meta) ==
  [ some |-> TRUE, original_keywords |-> meta.original_keywords,
    used_keywords |-> meta.used_keywords, removed_keywords |-> meta.removed_keywords ]

\* ConversationState(): the field defaults.  intent_result is a reference
\* into the heap of IntentResult objects (0 = None).
ConversationState ==
  [ state |-> INITIAL, current_query |-> << >>, search_results |-> << >>,
    current_options |-> << >>, option_type |-> NoneStr, filter_history |-> << >>,
    message_history |-> << >>, intent_result |-> 0, relax_meta |-> NoMeta,
    state_history |-> << >> ]

\* ChatMessage(role, content); a content is a sequence of tokens
ChatMessage(role, content) == [role |-> role, content |-> content]

add_message(c, role, content) ==
  [c EXCEPT !.message_history = Append(@, ChatMessage(role, content))]

clear(c) == ConversationState

\* the snapshot dictionary: copies of the lists, the intent by reference
Snapshot(c) ==
  [ state |-> c.state, current_query |-> c.current_query,
    search_results |-> c.search_results, current_options |-> c.current_options,
    option_type |-> c.option_type, filter_history |-> c.filter_history,
    message_history |-> c.message_history, intent_result |-> c.intent_result,
    relax_meta |-> c.relax_meta ]

\* a snapshot is pushed whatever the size of the stack
save_state_snapshot_unbounded(c) ==
  IF c.state \notin {INITIAL, COMPLETED}
    THEN [c EXCEPT !.state_history = Append(@, Snapshot(c))]
    ELSE c

save_state_snapshot(c) ==
  IF c.state \notin {INITIAL, COMPLETED}
    THEN [c EXCEPT !.state_history =
            Append(IF Len(@) >= MaxSnapshots THEN Tail(@) ELSE @, Snapshot(c))]
    ELSE c

can_undo(c) == Len(c.state_history) > 0

\* the snapshot is restored but for the candidates, which stay
undo_last_step_keeping_results(c) ==
  [ c.state_history[Len(c.state_history)] EXCEPT !.search_results = c.search_results ]
    @@ [ state_history |-> SubSeq(c.state_history, 1, Len(c.state_history) - 1) ]

undo_last_step(c) ==
  LET last_snapshot == c.state_history[Len(c.state_history)]
  IN [ state |-> last_snapshot.state, current_query |-> last_snapshot.current_query,
       search_results |-> last_snapshot.search_results,
       current_options |-> last_snapshot.current_options,
       option_type |-> last_snapshot.option_type,
       filter_history |-> last_snapshot.filter_history,
       message_history |-> last_snapshot.message_history,
       intent_result |-> last_snapshot.intent_result,
       relax_meta |-> last_snapshot.relax_meta,
       state_history |-> SubSeq(c.state_history, 1, Len(c.state_history) - 1) ]

update_state(c, new_state) == [c EXCEPT !.state = new_state]

add_filter(c, filter_type, filter_value) ==
  [c EXCEPT !.filter_history = Append(@, [type |-> filter_type, value |-> filter_value])]

\* ------------------------------------------------------------- chat handler
\* Words of the user's message the handler looks for (ASCII spellings):
\* Rephrase = one of rephrase_keywords, Find = one of reset_keywords,
\* Undo = one of undo_keywords, Yes / No = members of yes_set / no_set.
rephrase_keywords == {"Rephrase"}

reset_keywords == {"Find"}

undo_keywords == {"Undo"}

yes_set == {"Yes"}

no_set == {"No"}

\* str.upper() on the tokens of the model
UpperTable == [a |-> "A", b |-> "B"]

Upper(t) == IF t \in DOMAIN UpperTable THEN UpperTable[t] ELSE t

\* ChatResponse; status 500 is the response FastAPI sends for an exception
\* that leaves the handler
ChatResponse(message, results, options, needs_choice) ==
  [ message |-> message, results |-> results, options |-> options,
    needs_choice |-> needs_choice, status |-> 200 ]

ServerError ==
  [ message |-> << >>, results |-> << >>, options |-> << >>, needs_choice |-> FALSE,
    status |-> 500 ]

\* the last assistant message of a history (<< >> when there is none)
last_assistant_msg(history) ==
  LET idx == {i \in 1..Len(history) : history[i].role = "assistant"}
  IN IF idx = {} THEN << >>
     ELSE history[CHOOSE i \in idx : \A j \in idx : j <= i].content

\* the (brand, model) SearchService._parse_brand_model reads from an option
\* name; every other name of the model holds no brand word: (None, None)
ParsedBrandModel ==
  [ DongfengKLseries |-> << "Dongfeng", "KL" >>, JiefangKLseries |-> << "Jiefang", "KL" >>,
    DongfengKL |-> << "Dongfeng", "KL" >>, Dongfeng |-> << "Dongfeng", "" >>,
    Jiefang |-> << "Jiefang", "" >> ]

_parse_brand_model(option_value) ==
  IF option_value \in DOMAIN ParsedBrandModel
    THEN ParsedBrandModel[option_value] ELSE << NoneStr, NoneStr >>

\* no option selected
NoOption == FormattedOption(1, NoneStr, 0, NoneStr, FALSE, {}, 0)

\* the option a label selects (chat.py: the option whose label equals the
\* upper-cased input)
OptionByLabel(options, user_input_upper) ==
  LET idx == {i \in 1..Len(options) : options[i].label = user_input_upper}
  IN options[CHOOSE i \in idx : \A j \in idx : i <= j]

\* query.lower() in name.lower() or name.lower() in query.lower(), the query
\* being the tokens joined by blanks
NameMatches(query, name) ==
  \/ (Len(query) = 1 /\ SubStr(query[1], name))
  \/ \E i \in 1..Len(query) : SubStr(name, query[i])

HasTextMatch(options, query) == \E i \in 1..Len(options) : NameMatches(query, options[i].name)

\* the first option whose name matches the text
OptionByText(options, query) ==
  LET idx == {i \in 1..Len(options) : NameMatches(query, options[i].name)}
  IN options[CHOOSE i \in idx : \A j \in idx : i <= j]

\* the filter by the option's ids applied to every option, with ids or not
FilterByOptionIds_unguarded(results, option) ==
  SelectSeq(results, LAMBDA i : i \in option.ids)

\* the filter by the option's ids, applied when the option carries a
\* non-empty list of ids
FilterByOptionIds(results, option) ==
  IF option.hasIds /\ option.ids # {}
    THEN SelectSeq(results, LAMBDA i : i \in option.ids)
    ELSE results

\* the filter entries a selected option records (chat.py: add_filter)
SelectedFilters(option, user_input) ==
  LET bm == _parse_brand_model(option.name)
  IN CASE option.type = "brand_model" ->
            IF bm[1] # NoneStr /\ bm[2] # NoneStr
              THEN << [type |-> "brand", value |-> bm[1]], [type |-> "model", value |-> bm[2]] >>
            ELSE IF bm[1] # NoneStr THEN << [type |-> "brand", value |-> bm[1]] >>
            ELSE << >>
       [] option.type = "result" ->
            << [type |-> "result",
                value |-> IF option.name # NoneStr THEN option.name ELSE user_input] >>
       [] option.type \in {"brand", "model", "type", "variant", "document_category",
                           "config"} ->
            << [type |-> option.type, value |-> option.name] >>
       [] OTHER -> << >>

\* FilterBySelected, once byBrand is known
FilterBySelected_byBrand(bm, byBrand) ==
  IF bm[2] # NoneStr /\ byBrand # << >>
    THEN filter_by_model(byBrand, bm[2]) ELSE byBrand

\* the candidates f0 (already cut to the option's ids) filtered by the
\* option's type and name
FilterBySelected(c, option, f0) ==
  LET option_value == option.name
      bm == _parse_brand_model(option.name)
  IN CASE option.type = "brand" -> filter_by_hierarchy(f0, option_value, NoneStr, NoneStr)
       [] option.type = "model" -> filter_by_hierarchy(f0, NoneStr, option_value, NoneStr)
       [] option.type = "type" -> filter_by_hierarchy(f0, NoneStr, NoneStr, option_value)
       [] option.type = "variant" ->
            SelectSeq(f0, LAMBDA i :
              variant_key_for_query(Catalog[i], c.current_query) # NoneStr
                /\ variant_key_for_query(Catalog[i], c.current_query) = StripSeries(option_value))
       [] option.type = "brand_model" ->
            IF bm[1] # NoneStr
              THEN FilterBySelected_byBrand(bm,
                                            filter_by_hierarchy(f0, bm[1], NoneStr, NoneStr))
              ELSE f0
       [] option.type = "result" ->
            IF option.id # 0 THEN SelectSeq(f0, LAMBDA i : i = option.id) ELSE f0
       [] option.type = "document_category" ->
            IF (f0 = << >> \/ ~(option.hasIds /\ option.ids # {})) /\ option_value # NoneStr
              THEN SelectSeq(c.search_results,
                             LAMBDA i : SubStr(option_value, Catalog[i].file_name))
              ELSE f0
       [] OTHER -> f0

\* ApplySelection, once f1 is known
ApplySelection_f1(c, option, user_input, f1) ==
  [c EXCEPT !.filter_history = @ \o SelectedFilters(option, user_input),
            !.search_results =
               IF option.type = "config" /\ option.name # NoneStr
                 THEN SelectSeq(f1, LAMBDA i :
                        \E f \in _diagram_text_fields(Catalog[i]) : SubStr(option.name, f))
                 ELSE f1,
            !.current_options = << >>,
            !.option_type = NoneStr]

\* The filtering of a selected option (chat.py, label branch and text-match
\* branch): the conversation with the filters recorded, the filtered
\* candidates stored and the options cleared.  No option of the model has the
\* type filename_prefix.
ApplySelection(c, option, user_input) ==
  ApplySelection_f1(c, option, user_input,
                    FilterBySelected(c, option, FilterByOptionIds(c.search_results, option)))

\* ---------------------------------------- chat handler: fallback questions
\* a filter that keeps the options that cover every candidate
_filter_out_noop_options_keeping_all(options, all_ids) == options

\* _filter_out_noop_options: options whose ids are the whole candidate set go
_filter_out_noop_options(options, all_ids) ==
  IF options = << >> \/ all_ids = {} THEN options
  ELSE SelectSeq(options, LAMBDA o : ~(o.hasIds /\ o.ids # {} /\ o.ids = all_ids))

\* path levels get_all_levels takes for types, categories and brands
LevelTypeTokens == {"CircuitDiagram", "DashDiagram", "VehicleDiagram"}

COMMON_VEHICLE_CATEGORIES == {"Truck"}

COMMON_BRANDS == {"Dongfeng", "Jiefang"}

\* HierarchyUtil.get_all_levels: the sets of parsed fields, topped up from
\* the path levels when one of them is empty
AllLevels(brands, models, types, categories, levels) ==
  IF brands = {} \/ models = {} \/ types = {} \/ categories = {}
    THEN [ brands |-> brands \cup (levels \cap COMMON_BRANDS), models |-> models,
           types |-> types \cup (levels \cap LevelTypeTokens),
           categories |-> categories \cup (levels \cap COMMON_VEHICLE_CATEGORIES) ]
    ELSE [ brands |-> brands, models |-> models, types |-> types,
           categories |-> categories ]

\* get_all_levels, once ds is known
get_all_levels_ds(ds) ==
  AllLevels({d.brand : d \in ds} \ {NoneStr}, {d.model : d \in ds} \ {NoneStr},
            {d.diagram_type : d \in ds} \ {NoneStr},
            {d.vehicle_category : d \in ds} \ {NoneStr},
            UNION {Range(d.hierarchy_path) : d \in ds} \ {NoneStr})

get_all_levels(results) ==
  get_all_levels_ds({Catalog[i] : i \in Ids(results)})

\* list(level_set): the names of a set in the order of iteration
ListOfSet(S) == SelectSeq(NameOrder, LAMBDA n : n \in S)

\* the options of one level set, with the ids of the documents whose parsed
\* field equals the name
LevelOptions(opt_type, level_set, results, max_options) ==
  LET names == Take(ListOfSet(level_set), max_options)
      raw == Stored([p \in 1..Len(names) |->
                LET ids == {i \in Ids(results) : FieldKey(opt_type, Catalog[i]) = names[p]}
                IN Opt(names[p], Cardinality(ids), TRUE, ids)])
  IN SortByCount(_filter_out_noop_options(raw, Ids(results)))

LevelSet(all_levels, opt_type) ==
  CASE opt_type = "brand" -> all_levels.brands
    [] opt_type = "model" -> all_levels.models
    [] opt_type = "type" -> all_levels.types
    [] OTHER -> all_levels.categories

NoBest == [option_type |-> NoneStr, options |-> << >>]

RECURSIVE BestLevel(_, _, _, _, _)
\* BestLevel, once options is known
BestLevel_options(opt_types, all_levels, results, max_options, excluded_types, level_set, options) ==
  IF Head(opt_types) \notin excluded_types /\ Cardinality(level_set) >= 2
       /\ Len(options) >= 2
    THEN [option_type |-> Head(opt_types), options |-> Take(options, max_options)]
    ELSE BestLevel(Tail(opt_types), all_levels, results, max_options,
                   excluded_types)

\* BestLevel, once level_set is known
BestLevel_level_set(opt_types, all_levels, results, max_options, excluded_types, level_set) ==
  BestLevel_options(opt_types, all_levels, results, max_options, excluded_types,
                    level_set,
                    LevelOptions(Head(opt_types), level_set, results, max_options))

BestLevel(opt_types, all_levels, results, max_options, excluded_types) ==
  IF opt_types = << >> THEN NoBest
  ELSE BestLevel_level_set(opt_types, all_levels, results, max_options, excluded_types,
                           LevelSet(all_levels, Head(opt_types)))

\* KeepBest, once kept is known
KeepBest_kept(best, kept) ==
  IF best.option_type # NoneStr /\ best.options # << >> /\ Len(kept) >= 2
    THEN [option_type |-> best.option_type, options |-> kept]
    ELSE NoBest

\* the best options without the no-op buckets, or NoBest when fewer than two
\* are left
KeepBest(best, results) ==
  KeepBest_kept(best, _filter_out_noop_options(best.options, Ids(results)))

\* best_options, once brand_model_options is known
best_options_brand_model_options(results, max_options, excluded_types, brand_model_options) ==
  KeepBest(IF Len(brand_model_options) >= 2
             THEN [option_type |-> "brand_model", options |-> brand_model_options]
             ELSE BestLevel(<< "brand", "model", "type", "category" >>,
                            get_all_levels(results), results, max_options, excluded_types),
           results)

\* first fallback: brand+series buckets of the path, else one of the level
\* sets; (type, options) or NoBest
best_options(results, max_options, excluded_types) ==
  best_options_brand_model_options(results, max_options, excluded_types,
                                   _extract_options_from_hierarchy(results, max_options, NoneStr))

\* the options of the first fallback as sent: the count is the number of ids
\* when there are ids
FormatBestOptions(options, option_type, max_options) ==
  LET shown == Take(options, max_options)
  IN Stored([i \in 1..Len(shown) |->
        FormattedOption(i, shown[i].name,
                        IF shown[i].hasIds /\ shown[i].ids # {}
                          THEN Cardinality(shown[i].ids) ELSE shown[i].count,
                        option_type, shown[i].hasIds, shown[i].ids, 0)])

\* options built from a dictionary name -> ids: names in order of insertion,
\* sorted by size, cut, no-op buckets dropped
DictOptions(names, idsOf, results, max_options) ==
  LET raw == Stored([p \in 1..Len(names) |->
                Opt(names[p], Cardinality(idsOf[names[p]]), TRUE, idsOf[names[p]])])
  IN _filter_out_noop_options(Take(SortByCount(raw), max_options), Ids(results))

\* the level after the brand in a path longer than two levels, named
\* "brand level"; else the first level below the root
BrandLevelKey(d) ==
  LET path == d.hierarchy_path
      hits == {i \in 1..Len(path) : d.brand # NoneStr /\ SubStr(d.brand, path[i])}
      brand_pos == IF hits = {} THEN 0 ELSE CHOOSE i \in hits : \A j \in hits : i <= j
      below == {i \in 2..Len(path) : path[i] # NoneStr /\ path[i] # "CircuitDiagram"}
  IN IF Len(path) <= 2 THEN NoneStr
     ELSE IF brand_pos # 0 /\ brand_pos + 1 <= Len(path)
       THEN IF path[brand_pos + 1] # d.brand
              THEN IF d.brand \in DOMAIN BrandModelNames
                        /\ path[brand_pos + 1] \in DOMAIN BrandModelNames[d.brand]
                     THEN BrandModelNames[d.brand][path[brand_pos + 1]]
                     ELSE path[brand_pos + 1]
              ELSE NoneStr
     ELSE IF below = {} THEN NoneStr
     ELSE path[CHOOSE i \in below : \A j \in below : i <= j]

\* brand_level_options, once names is known
brand_level_options_names(results, max_options, key, names) ==
  [ keys |-> Len(names),
    options |-> DictOptions(names,
                  [n \in Range(names) |-> {i \in Ids(results) : key[i] = n}],
                  results, max_options) ]

\* brand_level_options, once key is known
brand_level_options_key(results, max_options, key) ==
  brand_level_options_names(results, max_options, key,
                            Dedupe(SelectSeq(Stored([p \in 1..Len(results) |-> key[results[p]]]),
                                             LAMBDA n : n # NoneStr)))

\* second fallback: the dictionary of brand levels
brand_level_options(results, max_options) ==
  brand_level_options_key(results, max_options,
                          Stored([i \in AllIds |-> BrandLevelKey(Catalog[i])]))

\* levels naming a type (type_keywords of the third fallback)
TypeLevel(level) == level \in LevelTypeTokens

\* the levels below the root the third fallback keeps for one document
KeptLevels(d, type_already_specified, brand_tokens) ==
  SelectSeq(Tail(d.hierarchy_path), LAMBDA level :
    /\ level # NoneStr /\ level # "CircuitDiagram"
    /\ ~(type_already_specified /\ TypeLevel(level))
    /\ ~(\E bt \in brand_tokens : SubStr(bt, level) \/ SubStr(level, bt)))

RECURSIVE Concat(_)
Concat(ss) == IF ss = << >> THEN << >> ELSE Head(ss) \o Concat(Tail(ss))

\* a dictionary's options, none when fewer than two are left
AtLeastTwo(options) == IF Len(options) < 2 THEN << >> ELSE options

\* all_level_options, once names is known
all_level_options_names(results, max_options, kept, names) ==
  [ keys |-> Len(names),
    options |-> AtLeastTwo(DictOptions(names,
                  [n \in Range(names) |-> {i \in Ids(results) : n \in Range(kept[i])}],
                  results, max_options)) ]

\* all_level_options, once kept is known
all_level_options_kept(results, max_options, kept) ==
  all_level_options_names(results, max_options, kept,
                          Dedupe(Concat(Stored([p \in 1..Len(results) |-> kept[results[p]]]))))

\* third fallback: the dictionary of every level below the root
all_level_options(results, max_options, type_already_specified, brand_tokens) ==
  all_level_options_kept(results, max_options,
                         Stored([i \in AllIds |->
                                   KeptLevels(Catalog[i], type_already_specified, brand_tokens)]))

\* one name of the dictionary of file-name parts gets the document id
AddName(dict, name, id) ==
  IF \E p \in 1..Len(dict) : dict[p].name = name
    THEN Stored([p \in 1..Len(dict) |->
            IF dict[p].name = name THEN [dict[p] EXCEPT !.ids = @ \cup {id}] ELSE dict[p]])
    ELSE Append(dict, [name |-> name, ids |-> {id}])

\* while the dictionary is empty, the first characters of the name count
\* (every file name of the catalog is longer than five characters)
AddPrefix(dict, d) == IF dict = << >> THEN AddName(dict, d.prefix15, d.id) ELSE dict

RECURSIVE FileNameDict(_, _)
\* FileNameDict, once d is known
FileNameDict_d(results, dict, d) ==
  FileNameDict(Tail(results),
    AddPrefix(IF d.brand # NoneStr /\ SubStr(d.brand, d.file_name)
                   /\ d.afterBrand # NoneStr
                THEN AddName(dict, d.afterBrand, d.id) ELSE dict,
              d))

\* the dictionary of file-name parts: the part after the brand, or the prefix
FileNameDict(results, dict) ==
  IF results = << >> THEN dict
  ELSE FileNameDict_d(results, dict, Catalog[Head(results)])

\* file_name_options, once dict is known
file_name_options_dict(results, max_options, dict) ==
  [ keys |-> Len(dict),
    options |-> AtLeastTwo(DictOptions(Stored([p \in 1..Len(dict) |-> dict[p].name]),
                  [n \in {dict[p].name : p \in 1..Len(dict)} |->
                     (CHOOSE e \in Range(dict) : e.name = n).ids],
                  results, max_options)) ]

file_name_options(results, max_results, max_options) ==
  file_name_options_dict(results, max_options,
                         FileNameDict(Take(results, max_results * 2), << >>))

\* the options of a dictionary as sent
FormatDictOptions(options, option_type) ==
  Stored([i \in 1..Len(options) |->
     FormattedOption(i, options[i].name, options[i].count, option_type, TRUE,
                     options[i].ids, 0)])

\* names of the groups of the last fallback: "<brand> related", or
\* "results lo-hi"
Digits == << "1", "2", "3", "4", "5", "6", "7", "8", "9", "10" >>

RelatedNames == [Dongfeng |-> "DongfengRelated", Jiefang |-> "JiefangRelated"]

GroupName(lo, hi, brand) ==
  IF brand \in DOMAIN RelatedNames THEN RelatedNames[brand]
  ELSE "Results" \o Digits[lo] \o "_" \o Digits[hi]

\* the last fallback: the first results cut into groups
result_groups(results, max_results) ==
  LET total_found == Len(results)
      group_size == Max(2, total_found \div max_results)
      upto == Min(total_found, max_results * 2)
      starts == {i \in 0..(upto - 1) : i % group_size = 0}
      n == Cardinality(starts)
  IN Stored([g \in 1..n |->
        LET i == (g - 1) * group_size
            group_results == SubSeq(results, i + 1, Min(i + group_size, total_found))
        IN [ name |-> GroupName(i + 1, Min(i + group_size, total_found),
                                Catalog[group_results[1]].brand),
             count |-> Len(group_results), results |-> group_results ]])

group_options(groups, results, max_options) ==
  LET sliced == Take(groups, max_options)
      raw == Stored([g \in 1..Len(sliced) |->
                Opt(sliced[g].name, sliced[g].count, TRUE, Range(sliced[g].results))])
      kept == _filter_out_noop_options(raw, Ids(results))
  IN Stored([i \in 1..Len(kept) |->
        FormattedOption(i, kept[i].name, Cardinality(kept[i].ids), "group", TRUE,
                        kept[i].ids, 0)])

\* ------------------------------------------- chat handler: the turn itself
\* What a turn leaves behind for the properties: the branch it took, the
\* conversation before it, the conversation when the search step was
\* entered, the number of calls of SearchService.search / search_and_relax,
\* whether parse_intent ran, the selected option, and what reached the
\* post-search step.
Trace(c0, message, max_results) ==
  [ branch |-> NoneStr, pre |-> c0, message |-> message, max_results |-> max_results,
    searches |-> 0, parsed |-> FALSE, at_search |-> c0, entered_search |-> FALSE,
    selected |-> NoOption, post |-> FALSE, total_found |-> 0, forced |-> FALSE,
    builder |-> NoneStr ]

Result(c, heap, resp, tr) == [conv |-> c, heap |-> heap, resp |-> resp, tr |-> tr]

\* a reply that is stored as the assistant's message and sent
Reply(c, heap, content, tr) ==
  Result(add_message(c, "assistant", content), heap,
         ChatResponse(content, << >>, << >>, FALSE), tr)

\* a question: the options are stored and sent, the session waits for a choice
AskChoice(c, heap, options, option_type, builder, tr) ==
  LET content == << "question", option_type >>
      c1 == [update_state(c, NEEDS_CHOICE) EXCEPT !.current_options = options,
                                                  !.option_type = option_type]
  IN Result(add_message(c1, "assistant", content), heap,
            ChatResponse(content, << >>, options, TRUE),
            [tr EXCEPT !.builder = builder])

\* the results are sent, the state is left as it is
SendResults_without_update(c, heap, content, results, tr) ==
  Result(add_message(c, "assistant", content), heap,
         ChatResponse(content, results, << >>, FALSE), tr)

\* the results are sent, the session is completed
SendResults(c, heap, content, results, tr) ==
  Result(add_message(update_state(c, COMPLETED), "assistant", content), heap,
         ChatResponse(content, results, << >>, FALSE), tr)

_is_explicit_brand(brand, raw_q) ==
  /\ brand # NoneStr /\ raw_q # << >>
  /\ \/ \E i \in 1..Len(raw_q) : SubStr(brand, raw_q[i])
     \/ \E h \in BrandHintTokens :
          SubStr(h, brand) /\ \E i \in 1..Len(raw_q) : SubStr(h, raw_q[i])

_is_explicit_type(diagram_type, raw_q) ==
  /\ diagram_type # NoneStr /\ raw_q # << >>
  /\ \E i \in 1..Len(raw_q) : raw_q[i] \in ChatTypeHintTokens

\* the threshold under which a forced choice lists the files themselves
ChooseFileThreshold == 15

MaxOptionsFloor == 5

MaxOptionsCeiling == 15

max_options_for(max_results) ==
  Max(MaxOptionsFloor, Min(MaxOptionsCeiling, max_results * 3))

\* the file-level options of a forced choice: one option per document, with
\* its id and no ids list
file_level_options(scored_results, max_results) ==
  LET shown == Take(scored_results, Max(max_results, ChooseFileThreshold))
  IN Stored([i \in 1..Len(shown) |->
        FormattedOption(i, Catalog[shown[i]].file_name, 1, "result", FALSE, {}, shown[i])])

\* the IntentResult a reference denotes (None for 0)
Deref(heap, ref) == IF ref = 0 THEN NoIntent ELSE heap[ref]

\* intent_filter, once alt is known
intent_filter_alt(scored_results, alt) ==
  IF alt # << >> THEN alt ELSE scored_results

\* intent_filter, once alt1 is known
intent_filter_alt1(scored_results, intent, type_already_specified, alt1) ==
  IF alt1 # << >> THEN alt1
  ELSE intent_filter_alt(scored_results,
                         IF type_already_specified /\ intent.diagram_type # NoneStr
                           THEN filter_by_hierarchy(scored_results, NoneStr, NoneStr,
                                                    intent.diagram_type)
                           ELSE << >>)

\* intent_filter, once filtered is known
intent_filter_filtered(scored_results, intent, brand_already_specified, type_already_specified, filtered) ==
  IF filtered # << >> THEN filtered
  ELSE intent_filter_alt1(scored_results, intent, type_already_specified,
                          IF brand_already_specified /\ intent.brand # NoneStr
                            THEN filter_by_hierarchy(scored_results, intent.brand, NoneStr, NoneStr)
                            ELSE << >>)

\* the filter by the brand / type the user named (chat.py, after the search)
intent_filter(scored_results, intent, brand_already_specified, type_already_specified) ==
  intent_filter_filtered(scored_results, intent, brand_already_specified,
                         type_already_specified,
                         filter_by_hierarchy(scored_results,
                           IF brand_already_specified THEN intent.brand ELSE NoneStr, NoneStr,
                           IF type_already_specified THEN intent.diagram_type ELSE NoneStr))

\* the last fallback: the groups are stored as options, then the assignment
\* to the undeclared field grouped_results raises: no message is stored, the
\* request fails
GroupQuestion(c, heap, groups, scored_results, max_options, tr) ==
  IF Len(groups) >= 2
    THEN Result([update_state(c, NEEDS_CHOICE) EXCEPT
                   !.current_options = group_options(groups, scored_results, max_options),
                   !.option_type = "group"],
                heap, ServerError, [tr EXCEPT !.builder = "group"])
    ELSE Reply(update_state(c, COMPLETED), heap, << "no_question" >>,
               [tr EXCEPT !.builder = "none"])

\* DictQuestion, once file_name is known
DictQuestion_file_name(c, heap, scored_results, max_options, max_results, tr, file_name) ==
  IF file_name.keys >= 2
    THEN AskChoice(c, heap, FormatDictOptions(file_name.options, "type"), "type",
                   "file_names", tr)
    ELSE GroupQuestion(c, heap, result_groups(scored_results, max_results),
                       scored_results, max_options, tr)

\* DictQuestion, once all_level is known
DictQuestion_all_level(c, heap, scored_results, max_options, type_already_specified, max_results, tr, all_level) ==
  IF all_level.keys >= 2
    THEN AskChoice(c, heap,
                   FormatDictOptions(all_level.options,
                     IF type_already_specified THEN "brand_model" ELSE "type"),
                   IF type_already_specified THEN "brand_model" ELSE "type",
                   "all_levels", tr)
  ELSE DictQuestion_file_name(c, heap, scored_results, max_options, max_results, tr,
                              file_name_options(scored_results, max_results, max_options))

\* DictQuestion, once brand_level is known
DictQuestion_brand_level(c, heap, scored_results, max_options, type_already_specified, brand_tokens, max_results, tr, brand_level) ==
  IF brand_level.keys >= 2
    THEN AskChoice(c, heap, FormatDictOptions(brand_level.options, "brand_model"),
                   "brand_model", "brand_level", tr)
  ELSE DictQuestion_all_level(c, heap, scored_results, max_options, type_already_specified,
                              max_results, tr,
                              all_level_options(scored_results, max_options, type_already_specified,
                                                brand_tokens))

\* the fallbacks on the path levels and the file names
DictQuestion(c, heap, scored_results, max_options, type_already_specified, brand_tokens, max_results, tr) ==
  DictQuestion_brand_level(c, heap, scored_results, max_options, type_already_specified,
                           brand_tokens, max_results, tr,
                           brand_level_options(scored_results, max_options))

\* FallbackQuestion, once best is known
FallbackQuestion_best(c, heap, scored_results, type_already_specified, brand_tokens, max_results, tr, best) ==
  IF best.option_type # NoneStr
    THEN AskChoice(c, heap,
                   FormatBestOptions(best.options, best.option_type,
                                     max_options_for(max_results)),
                   best.option_type, "levels", tr)
    ELSE DictQuestion(c, heap, scored_results, max_options_for(max_results),
                      type_already_specified, brand_tokens, max_results, tr)

\* every fallback after generate_question returned None, down to the groups
FallbackQuestion(c, heap, scored_results, excluded_types, type_already_specified, brand_tokens, max_results, tr) ==
  FallbackQuestion_best(c, heap, scored_results, type_already_specified, brand_tokens,
                        max_results, tr,
                        best_options(scored_results, max_options_for(max_results), excluded_types))

\* faulty flags of a selection, for comparison: the search is not skipped
\* (C9 does not survive them)
selection_continuation_searching ==
  [skip_search |-> FALSE, has_scored |-> FALSE, force_choose |-> TRUE]

\* the local flags of a selection that leaves more than max_results
\* candidates: the candidates are handed on, the search is skipped and a
\* choice is forced
selection_continuation ==
  [skip_search |-> TRUE, has_scored |-> TRUE, force_choose |-> TRUE]

\* the flags of an affirmative reply in NEEDS_CONFIRM
confirm_continuation ==
  [skip_search |-> TRUE, has_scored |-> TRUE, force_choose |-> TRUE]

\* the flags of a turn that is neither
search_continuation ==
  [skip_search |-> FALSE, has_scored |-> FALSE, force_choose |-> FALSE]

\* Respond, once question_data is known
Respond_question_data(c, heap, scored_results, type_already_specified, brand_tokens, max_results, excluded_types, tr1, question_data) ==
  IF question_data.ok
    THEN AskChoice(c, heap, question_data.options,
                   question_data.option_type, "generate_question", tr1)
    ELSE FallbackQuestion(c, heap, scored_results, excluded_types,
                          type_already_specified, brand_tokens, max_results,
                          tr1)

\* chat.py from the candidates scored_results, already de-duplicated and
\* filtered by the intent, to the response
Respond(c, heap, scored_results, has_intent, intent, type_already_specified, brand_tokens, force_choose_in, max_results, tr) ==
  LET total_found == Len(scored_results)
      force_choose ==
        \/ force_choose_in
        \/ (total_found >= 2 /\ \E i \in 1..Len(c.current_query) : c.current_query[i] \in PinTokens)
      temp_types == {c.filter_history[i].type : i \in 1..Len(c.filter_history)}
      excluded_types ==
        temp_types \cup (IF has_intent /\ intent.brand # NoneStr THEN {"brand"} ELSE {})
                   \cup (IF has_intent /\ intent.diagram_type # NoneStr THEN {"type"} ELSE {})
      brand_filters == SelectSeq(c.filter_history, LAMBDA f : f.type = "brand")
      user_brand == IF has_intent THEN intent.brand
                    ELSE IF brand_filters # << >> THEN brand_filters[1].value
                    ELSE NoneStr
      tr1 == [tr EXCEPT !.post = total_found > 0, !.total_found = total_found,
                        !.forced = force_choose]
  IN IF scored_results = << >>
       THEN Reply(update_state(c, COMPLETED), heap, << "no_result" >>, tr1)
     ELSE IF force_choose \/ total_found > max_results
       THEN IF force_choose /\ total_found <= Max(max_results, ChooseFileThreshold)
              THEN AskChoice(c, heap, file_level_options(scored_results, max_results),
                             "result", "files", tr1)
            ELSE Respond_question_data(c, heap, scored_results, type_already_specified,
                                       brand_tokens, max_results, excluded_types, tr1,
                                       generate_question(scored_results, 2, max_options_for(max_results),
                                                         excluded_types, c.current_query, user_brand))
     ELSE SendResults(c, heap, << "found" >>, Take(scored_results, max_results), tr1)

\* the candidates de-duplicated and, when the user named a brand or a type,
\* filtered by the intent
ScoredResults(scored_in, intent, brand_already_specified, type_already_specified) ==
  IF brand_already_specified \/ type_already_specified
    THEN intent_filter(deduplicate_results(scored_in), intent, brand_already_specified,
                       type_already_specified)
    ELSE deduplicate_results(scored_in)

\* PostSearch, once scored_results is known
PostSearch_scored_results(c, heap, intent_ref, force_choose_in, max_results, tr, intent, brand_already_specified, type_already_specified, scored_results) ==
  Respond([c EXCEPT !.search_results = scored_results], heap, scored_results,
          intent_ref # 0, intent, type_already_specified,
          IF brand_already_specified
            THEN {intent.brand} \cup {h \in BrandHintTokens : SubStr(h, intent.brand)}
            ELSE {},
          force_choose_in, max_results, tr)

\* PostSearch, once type_already_specified is known
PostSearch_type_already_specified(c, heap, scored_in, intent_ref, force_choose_in, max_results, tr, intent, brand_already_specified, type_already_specified) ==
  PostSearch_scored_results(c, heap, intent_ref, force_choose_in, max_results, tr, intent,
                            brand_already_specified, type_already_specified,
                            ScoredResults(scored_in, intent, brand_already_specified,
                                          type_already_specified))

\* PostSearch, once brand_already_specified is known
PostSearch_brand_already_specified(c, heap, scored_in, intent_ref, force_choose_in, max_results, tr, intent, brand_already_specified) ==
  PostSearch_type_already_specified(c, heap, scored_in, intent_ref, force_choose_in,
                                    max_results, tr, intent, brand_already_specified,
                                    intent_ref # 0 /\ intent.diagram_type # NoneStr
                                      /\ _is_explicit_type(intent.diagram_type, c.current_query))

\* PostSearch, once intent is known
PostSearch_intent(c, heap, scored_in, intent_ref, force_choose_in, max_results, tr, intent) ==
  PostSearch_brand_already_specified(c, heap, scored_in, intent_ref, force_choose_in,
                                     max_results, tr, intent,
                                     intent_ref # 0 /\ intent.brand # NoneStr
                                       /\ _is_explicit_brand(intent.brand, c.current_query))

\* chat.py from the de-duplication of the candidates to the response
PostSearch(c, heap, scored_in, intent_ref, force_choose_in, max_results, tr) ==
  PostSearch_intent(c, heap, scored_in, intent_ref, force_choose_in, max_results, tr,
                    Deref(heap, intent_ref))

\* ParseIntent, once intent_ref is known
ParseIntent_intent_ref(c, query, flags, heap1, intent_ref) ==
  [ heap |-> IF intent_ref = 0 THEN heap1
             ELSE [heap1 EXCEPT ![intent_ref] =
                     [@ EXCEPT !.brand = IF _is_explicit_brand(@, query) THEN @ ELSE NoneStr,
                               !.diagram_type =
                                  IF _is_explicit_type(@, query) THEN @ ELSE NoneStr]],
    intent_ref |-> intent_ref,
    c |-> [update_state(IF ~flags.skip_search
                          THEN [c EXCEPT !.intent_result = intent_ref] ELSE c,
                        SEARCHING)
             EXCEPT !.current_query = query] ]

\* ParseIntent, once heap1 is known
ParseIntent_heap1(c, query, flags, intent_ref_in, heap1) ==
  ParseIntent_intent_ref(c, query, flags, heap1,
                         IF ~flags.skip_search THEN Len(heap1) ELSE intent_ref_in)

\* parse_intent returns a fresh IntentResult, which the conversation holds
\* from then on; an inferred brand / type the query does not name is erased
\* in place.  The heap, the reference of the turn's intent and the
\* conversation in state SEARCHING.
ParseIntent(c, heap, query, flags, intent_ref_in, llm) ==
  ParseIntent_heap1(c, query, flags, intent_ref_in,
                    IF ~flags.skip_search
                      THEN Append(heap, IntentResult(llm.brand, llm.diagram_type, query))
                      ELSE heap)

\* the first candidates: the AND search, or the candidates handed on
FirstCandidates(c, query, logic, intent, flags, scored_in) ==
  IF ~flags.skip_search /\ ~flags.has_scored THEN search(query, logic, intent)
  ELSE IF flags.skip_search /\ ~flags.has_scored THEN c.search_results
  ELSE scored_in

\* RelaxStep, once relaxed is known
RelaxStep_relaxed(c, heap, intent_ref, intent, query, flags, scored1, max_results, strict_removed_terms, use_relax, or_search, tr1, relax, relaxed) ==
  IF use_relax /\ relaxed # << >>
       /\ (strict_removed_terms # << >> \/ relax.meta.removed_keywords # << >>)
    THEN Reply([update_state(c, NEEDS_CONFIRM) EXCEPT
                  !.search_results = relaxed, !.relax_meta = RelaxMeta(relax.meta)],
               heap,
               << "confirm" >> \o (IF strict_removed_terms # << >>
                                     THEN strict_removed_terms
                                     ELSE relax.meta.removed_keywords),
               tr1)
  ELSE IF use_relax /\ relaxed = << >>
    THEN Reply(update_state(c, COMPLETED), heap, << "no_result" >>, tr1)
  ELSE PostSearch(c, heap,
                  IF or_search THEN search(query, "OR", intent)
                  ELSE IF use_relax THEN relaxed ELSE scored1,
                  intent_ref, flags.force_choose, max_results,
                  [tr1 EXCEPT !.searches = @ + (IF or_search THEN 1 ELSE 0)])

\* RelaxStep, once relax is known
RelaxStep_relax(c, heap, intent_ref, intent, query, flags, scored1, max_results, strict_removed_terms, use_relax, or_search, tr1, relax) ==
  RelaxStep_relaxed(c, heap, intent_ref, intent, query, flags, scored1, max_results,
                    strict_removed_terms, use_relax, or_search, tr1, relax,
                    deduplicate_results(relax.results))

\* chat.py from the strict filename gate to the post-search step: the
\* relaxation, the confirmation it asks for, the OR search
RelaxStep(c, heap, intent_ref, intent, query, flags, scored1, max_results, logic, tr) ==
  LET strict_filename_failed ==
        logic = "AND" /\ scored1 # << >> /\ ~flags.skip_search /\ strict_and_count(query) <= 0
      strict_removed_terms ==
        IF strict_filename_failed
          THEN SelectSeq(strict_terms(query), LAMBDA t : strict_term_count(t) <= 0)
          ELSE << >>
      relaxing == (scored1 = << >> \/ strict_filename_failed) /\ logic = "AND"
                    /\ ~flags.skip_search
      use_relax == relaxing /\ Len(_extract_keywords(query)) > 1
      \* nothing was found and nothing could be relaxed: the OR search
      or_search == relaxing /\ ~use_relax /\ scored1 = << >>
      tr1 == [tr EXCEPT !.searches = @ + (IF use_relax THEN 1 ELSE 0)]
  IN RelaxStep_relax(c, heap, intent_ref, intent, query, flags, scored1, max_results,
                     strict_removed_terms, use_relax, or_search, tr1,
                     search_and_relax(query, intent, strict_removed_terms))

\* SearchStep, once intent is known
SearchStep_intent(query, flags, scored_in, max_results, logic, tr, p, intent) ==
  RelaxStep(p.c, p.heap, p.intent_ref, intent, query, flags,
            FirstCandidates(p.c, query, logic, intent, flags, scored_in),
            max_results, logic,
            [tr EXCEPT !.parsed = ~flags.skip_search, !.at_search = p.c,
                       !.entered_search = TRUE,
                       !.searches = IF ~flags.skip_search /\ ~flags.has_scored
                                      THEN 1 ELSE 0])

\* SearchStep, once p is known
SearchStep_p(query, flags, scored_in, max_results, logic, tr, p) ==
  SearchStep_intent(query, flags, scored_in, max_results, logic, tr, p,
                    Deref(p.heap, p.intent_ref))

\* chat.py from parse_intent to the relaxation; flags is one of the
\* continuation records, llm the answer of the LLM to the query
SearchStep(c, heap, query, flags, scored_in, intent_ref_in, llm, max_results, logic, tr) ==
  SearchStep_p(query, flags, scored_in, max_results, logic, tr,
               ParseIntent(c, heap, query, flags, intent_ref_in, llm))

\* What the handler has reached before the search step: the finished turn,
\* or the conversation, the query, the flags, the candidates and the intent
\* the search step goes on with.
Done(result) == [done |-> TRUE, result |-> result]

Continue(c, query, flags, scored, intent_ref, tr) ==
  [ done |-> FALSE, c |-> c, query |-> query, flags |-> flags, scored |-> scored,
    intent_ref |-> intent_ref, tr |-> tr ]

\* Selection, once cs is known
Selection_cs(heap, option, query, max_results, tr, cs) ==
  IF cs.search_results = << >>
    THEN Done(Reply(update_state(cs, COMPLETED), heap, << "not_found", option.name >>,
                    [tr EXCEPT !.selected = option]))
  ELSE IF Len(cs.search_results) <= max_results
    THEN Done(SendResults(cs, heap, << "selected" >>, cs.search_results,
                          [tr EXCEPT !.selected = option, !.post = TRUE,
                                     !.total_found = Len(cs.search_results)]))
  ELSE Continue(cs,
                IF cs.current_query # << >> THEN cs.current_query
                ELSE IF option.name # NoneStr THEN << option.name >>
                ELSE query,
                selection_continuation, cs.search_results, 0,
                [tr EXCEPT !.selected = option])

\* the handling of a selected option: empty -> not found, at most
\* max_results -> the results, else on to the next question
Selection(c, heap, option, user_input, query, max_results, tr) ==
  Selection_cs(heap, option, query, max_results, tr, ApplySelection(c, option, user_input))

\* ConfirmYes, once used is known
ConfirmYes_used(c, query, tr, scored_results, used) ==
  Continue(update_state([c EXCEPT !.search_results = scored_results,
                                  !.current_query = IF used # << >> THEN used ELSE @],
                        SEARCHING),
           IF used # << >> THEN used
           ELSE IF c.current_query # << >> THEN c.current_query ELSE query,
           confirm_continuation, scored_results, c.intent_result, tr)

\* ConfirmYes, once scored_results is known
ConfirmYes_scored_results(c, query, tr, scored_results) ==
  ConfirmYes_used(c, query, tr, scored_results,
                  SelectSeq(c.relax_meta.used_keywords, LAMBDA t : t # NoneStr))

\* an affirmative reply in NEEDS_CONFIRM: the stored relaxed candidates and
\* the stored intent are taken over, the query becomes the used keywords
ConfirmYes(c, query, tr) ==
  ConfirmYes_scored_results(c, query, tr, deduplicate_results(c.search_results))

\* Undo, once last_msg is known
Undo_last_msg(heap, tr0, undone, last_msg) ==
  IF last_msg # << >>
    THEN Result(undone, heap,
                ChatResponse(last_msg, << >>, undone.current_options,
                             undone.state = NEEDS_CHOICE),
                [tr0 EXCEPT !.branch = "undo"])
    ELSE Result(undone, heap,
                ChatResponse(<< "undone_no_view" >>, << >>, << >>, FALSE),
                [tr0 EXCEPT !.branch = "undo"])

\* Undo, once undone is known
Undo_undone(heap, tr0, undone) ==
  Undo_last_msg(heap, tr0, undone, last_assistant_msg(undone.message_history))

\* the reply to an undo request
Undo(c0, heap, tr0) ==
  IF can_undo(c0)
    THEN Undo_undone(heap, tr0, undo_last_step(c0))
    ELSE Result(c0, heap, ChatResponse(<< "cannot_undo" >>, << >>, << >>, FALSE),
                [tr0 EXCEPT !.branch = "undo_refused"])

\* the handler after the user's message is stored: the reply to a
\* confirmation, the selection of an option by label or by text, or a search
Route(c, heap, query, is_new_query, max_results, tr0) ==
  LET user_input_upper == IF Len(query) = 1 THEN Upper(query[1]) ELSE NoneStr
      choosing == c.state = NEEDS_CHOICE /\ c.current_options # << >>
      is_option_selection ==
        choosing /\ \E i \in 1..Len(c.current_options) :
                      c.current_options[i].label = user_input_upper
  IN IF c.state = NEEDS_CONFIRM
       THEN IF Len(query) = 1 /\ query[1] \in yes_set
              THEN ConfirmYes(c, query, [tr0 EXCEPT !.branch = "confirm_yes"])
            ELSE IF Len(query) = 1 /\ query[1] \in no_set
              THEN Done(Reply(update_state(c, COMPLETED), heap, << "declined" >>,
                              [tr0 EXCEPT !.branch = "confirm_no"]))
            ELSE Done(Reply(c, heap, << "please_confirm" >>,
                            [tr0 EXCEPT !.branch = "confirm_other"]))
     ELSE IF is_option_selection
       THEN Selection(c, heap, OptionByLabel(c.current_options, user_input_upper),
                      user_input_upper, query, max_results,
                      [tr0 EXCEPT !.branch = "select_label"])
     ELSE IF choosing /\ HasTextMatch(c.current_options, query)
       THEN Selection(c, heap, OptionByText(c.current_options, query),
                      IF Len(query) = 1 THEN query[1] ELSE NoneStr, query, max_results,
                      [tr0 EXCEPT !.branch = "select_text"])
     ELSE Continue(c, query, search_continuation, << >>, 0,
                   [tr0 EXCEPT !.branch = IF is_new_query THEN "reset_query" ELSE "query"])

\* the handler up to the search step: the empty message, the rephrase, undo
\* and reset words, the snapshot and the user's message
BeforeSearch(c0, heap, query, max_results) ==
  LET tr0 == Trace(c0, query, max_results)
      is_new_query == c0.state # INITIAL
                        /\ \E i \in 1..Len(query) : query[i] \in reset_keywords
      c1 == IF is_new_query THEN clear(c0) ELSE c0
      q1 == IF is_new_query THEN SelectSeq(query, LAMBDA t : t \notin reset_keywords)
            ELSE query
  IN IF query = << >>
       THEN Done(Result(c0, heap, ChatResponse(<< "prompt" >>, << >>, << >>, FALSE),
                        [tr0 EXCEPT !.branch = "empty"]))
     ELSE IF \E i \in 1..Len(query) : query[i] \in rephrase_keywords
       THEN Done(Reply(add_message(clear(c0), "user", query), heap, << "rephrased" >>,
                       [tr0 EXCEPT !.branch = "rephrase"]))
     ELSE IF \E i \in 1..Len(query) : query[i] \in undo_keywords
       THEN Done(Undo(c0, heap, tr0))
     ELSE IF is_new_query /\ q1 = << >>
       THEN Done(Result(c1, heap, ChatResponse(<< "prompt" >>, << >>, << >>, FALSE),
                        [tr0 EXCEPT !.branch = "reset_empty"]))
     ELSE Route(add_message(save_state_snapshot(c1), "user", q1), heap, q1, is_new_query,
                max_results, tr0)

\* chat, once b is known
chat_b(heap, llm, max_results, logic, b) ==
  IF b.done THEN b.result
  ELSE SearchStep(b.c, heap, b.query, b.flags, b.scored, b.intent_ref, llm, max_results,
                  logic, b.tr)

\* POST /chat for one conversation: message is the user's text, llm what the
\* LLM answers if it is asked, max_results and logic the request's fields
chat(c0, heap, message, llm, max_results, logic) ==
  chat_b(heap, llm, max_results, logic, BeforeSearch(c0, heap, message, max_results))

\* ------------------------------------------------------------ state machine
\* conversations : ConversationManager.conversations, session id -> state
\* intents       : the IntentResult objects parse_intent has created
\* resp          : the response to the last request
\* last          : the trace of the last turn, the session it belonged to, the
\*                 intent the session held before it, and the same facts of
\*                 the session's turn before that
\* turns         : the number of requests handled
\* clients       : the max_results and logic the client sends with a request
\* call          : a call of a service function made on its own, outside a
\*                 chat turn: the function, its arguments and what it returned
VARIABLES conversations, intents, resp, last, turns, clients, call

vars == << conversations, intents, resp, last, turns, clients, catalog, call >>

Sessions == {"default"}

\* the text queries a user sends
Queries ==
  { << "AirCon" >>, << "Dongfeng", "AirCon" >>, << "AirCon", "DashDiagram" >>,
    << "AirCon", "DashDiagram", "Pin" >>,
    << "KL", "CircuitDiagram" >>, << "AirCon", "Pin" >>, << "Heater" >>, << "KL" >>,
    << "Unknown" >> }

\* the queries sent together with a reset keyword
ResetQueries == { << "Find" >>, << "Find", "AirCon" >> }

\* what the LLM may infer from a query: nothing, or a brand and a type
LLMAnswers ==
  { [brand |-> NoneStr, diagram_type |-> NoneStr],
    [brand |-> "Dongfeng", diagram_type |-> "DashDiagram"] }

NoAnswer == [brand |-> NoneStr, diagram_type |-> NoneStr]

\* the answers of the LLM a query is sent with: the handler erases an
\* inferred brand or type that the query does not name, and no query of one
\* word names either, so only the longer queries are paired with an inference
LLMAnswersFor(m) == IF Len(m) >= 2 THEN LLMAnswers ELSE {NoAnswer}

MaxResultsValues == {1, 2}

LogicValues == {"AND"}

\* what is remembered, after an undo, of the turn it undoes: its branch, and
\* the conversation and the intent it started from
NoPrev == [branch |-> NoneStr, pre |-> ConversationState, pre_intent |-> NoIntent]

\* one conversation for all the sessions
get_or_create_state_of_any(s) ==
  IF DOMAIN conversations # {} THEN conversations[CHOOSE x \in DOMAIN conversations : TRUE]
  ELSE ConversationState

\* ConversationManager.get_or_create_state
get_or_create_state(s) ==
  IF s \in DOMAIN conversations THEN conversations[s] ELSE ConversationState

\* no service function has been called on its own
NoCall == [fn |-> NoneStr]

\* the server after start-up: the whole data set loaded, no session
Init ==
  /\ conversations = << >>
  /\ intents = << >>
  /\ resp = ChatResponse(<< >>, << >>, << >>, FALSE)
  /\ last = [sid |-> NoneStr, tr |-> Trace(ConversationState, << >>, 0),
             pre_intent |-> NoIntent, prev |-> NoPrev]
  /\ turns = 0
  /\ clients \in [max_results : MaxResultsValues, logic : LogicValues]
  /\ catalog = AllIds
  /\ call = NoCall

\* serving a request stores its conversation under every session id
Turn_served_for_all(s, message, llm) ==
  /\ \E r \in {chat(get_or_create_state(s), intents, message, llm,
                     clients.max_results, clients.logic)} :
        /\ conversations' = [x \in DOMAIN conversations \cup {s} |-> r.conv]
        /\ intents' = r.heap
        /\ resp' = r.resp
        /\ last' = [sid |-> s, tr |-> r.tr,
                     pre_intent |-> Deref(intents, get_or_create_state(s).intent_result),
                     prev |-> NoPrev]
  /\ turns' = turns + 1
  /\ UNCHANGED << clients, catalog >>

\* what serving one request to POST /chat changes
Turn_served(s, message, llm) ==
  /\ \E r \in {chat(get_or_create_state(s), intents, message, llm,
                     clients.max_results, clients.logic)} :
        /\ conversations' = [x \in DOMAIN conversations \cup {s} |->
                               IF x = s THEN r.conv ELSE conversations[x]]
        /\ intents' = r.heap
        /\ resp' = r.resp
        /\ last' = [sid |-> s, tr |-> r.tr,
                     pre_intent |-> Deref(intents, get_or_create_state(s).intent_result),
                     prev |-> IF r.tr.branch = "undo" /\ last.sid = s
                                THEN [branch |-> last.tr.branch, pre |-> last.tr.pre,
                                      pre_intent |-> last.pre_intent]
                                ELSE NoPrev]
  /\ turns' = turns + 1
  /\ UNCHANGED << clients, catalog >>

\* one request to POST /chat
Turn(s, message, llm) ==
  /\ turns < MaxTurns
  /\ Turn_served(s, message, llm)
  /\ UNCHANGED call

SendEmpty(s) == Turn(s, << >>, NoAnswer)

SendRephrase(s) == Turn(s, << "Rephrase" >>, NoAnswer)

SendUndo(s) == Turn(s, << "Undo" >>, NoAnswer)

\* a query sent together with a reset keyword, which the handler strips
SendReset(s) == \E m \in ResetQueries : \E llm \in LLMAnswersFor(Tail(m)) : Turn(s, m, llm)

\* a free-text query
SendQuery(s) == \E m \in Queries : \E llm \in LLMAnswersFor(m) : Turn(s, m, llm)

\* the user answers a question with one of its labels (in either case)
SendLabel(s) ==
  /\ get_or_create_state(s).state = NEEDS_CHOICE
  /\ \E m \in {<< o.label >> : o \in Range(get_or_create_state(s).current_options)}
              \cup {<< "a" >>} :
       Turn(s, m, NoAnswer)

\* the user answers a question with the name of one of its options
SendOptionName(s) ==
  /\ get_or_create_state(s).state = NEEDS_CHOICE
  /\ \E o \in Range(get_or_create_state(s).current_options) : Turn(s, << o.name >>, NoAnswer)

\* the user answers the confirmation
SendConfirm(s) ==
  /\ get_or_create_state(s).state = NEEDS_CONFIRM
  /\ \E m \in {<< "Yes" >>, << "No" >>} : Turn(s, m, NoAnswer)

Next ==
  \E s \in Sessions :
    \/ SendEmpty(s)
    \/ SendRephrase(s)
    \/ SendUndo(s)
    \/ SendReset(s)
    \/ SendQuery(s)
    \/ SendLabel(s)
    \/ SendOptionName(s)
    \/ SendConfirm(s)

Spec == Init /\ [][Next]_vars

\* --------------------------------------------------------------- properties
\* the conversation of the session the last turn belonged to
LastConv == get_or_create_state(last.sid)

\* the last turn applied an option selection (by label or by name)
Selecting == last.tr.branch \in {"select_label", "select_text"}

\* the branches of chat() that run after the snapshot is taken
SnapshotBranches ==
  {"confirm_yes", "confirm_no", "confirm_other", "select_label", "select_text", "query"}

\* C1: if the session is in NEEDS_CHOICE and the input matches no option
\* label and no option name, the session is still in NEEDS_CHOICE after the
\* turn.
C1_UnmatchedInputStaysInChoice ==
  ( /\ last.tr.branch = "query"
    /\ last.tr.pre.state = NEEDS_CHOICE
    /\ last.tr.pre.current_options # << >>
    /\ ~HasTextMatch(last.tr.pre.current_options, last.tr.message)
    /\ \A i \in 1..Len(last.tr.pre.current_options) :
         << last.tr.pre.current_options[i].label >> # last.tr.message )
  => LastConv.state = NEEDS_CHOICE

\* C2: when the input in NEEDS_CHOICE matches an option, the candidates stored
\* after the turn are exactly the previous candidates whose id is in that
\* option's ids.
C2_SelectionKeepsExactlyOptionIds ==
  (Selecting /\ last.tr.selected.hasIds /\ last.tr.selected.ids # {})
  => LastConv.search_results =
       SelectSeq(last.tr.pre.search_results, LAMBDA i : i \in last.tr.selected.ids)

\* C3: the number of candidates after an option selection is at most the
\* number of candidates before it.
C3_SelectionNeverGrows ==
  Selecting => Len(LastConv.search_results) <= Len(last.tr.pre.search_results)

\* a selection that left some, but fewer, candidates
C3_Witness ==
  /\ Selecting
  /\ LastConv.search_results # << >>
  /\ Len(LastConv.search_results) < Len(last.tr.pre.search_results)

\* C4: the ids of the options generate_question returns for a candidate set,
\* the "other" bucket included, together are the candidate ids, and no id is
\* in two options.
C4_OptionIdsPartitionCandidates ==
  last.tr.builder = "generate_question"
  => LET opts == LastConv.current_options
     IN /\ UNION {opts[i].ids : i \in 1..Len(opts)} = Ids(LastConv.search_results)
        /\ \A i, j \in 1..Len(opts) : i # j => opts[i].ids \cap opts[j].ids = {}

\* C5: whenever a new query starts a search, a plain new query in COMPLETED
\* included, no filter history, options, relaxation meta or snapshots of the
\* previous conversation are in effect when the query is searched.
C5_NewQuerySearchesClearedSession ==
  ( /\ last.tr.entered_search
    /\ \/ last.tr.branch = "reset_query"
       \/ last.tr.branch = "query" /\ last.tr.pre.state \in {INITIAL, COMPLETED} )
  => /\ last.tr.at_search.filter_history = << >>
     /\ last.tr.at_search.current_options = << >>
     /\ last.tr.at_search.relax_meta = NoMeta
     /\ last.tr.at_search.state_history = << >>

\* C6: an undo restores the state the session had immediately before the
\* most recent state-changing turn: state, query, candidates, options, filter
\* history, relaxation meta, intent and message history are those of that
\* moment.
C6_UndoRestoresPreTurnState ==
  ( /\ last.tr.branch = "undo"
    /\ last.prev.branch \in SnapshotBranches
    /\ last.prev.pre.state \notin {INITIAL, COMPLETED} )
  => /\ LastConv.state = last.prev.pre.state
     /\ LastConv.current_query = last.prev.pre.current_query
     /\ LastConv.search_results = last.prev.pre.search_results
     /\ LastConv.current_options = last.prev.pre.current_options
     /\ LastConv.option_type = last.prev.pre.option_type
     /\ LastConv.filter_history = last.prev.pre.filter_history
     /\ LastConv.relax_meta = last.prev.pre.relax_meta
     /\ LastConv.message_history = last.prev.pre.message_history
     /\ Deref(intents, LastConv.intent_result) = last.prev.pre_intent

\* C7: a turn that reaches the post-search step with candidates ends in
\* NEEDS_CHOICE if there are more candidates than max_results, and otherwise
\* returns the results and ends in COMPLETED.
C7_ThresholdDecidesOutcome ==
  last.tr.post
  => IF last.tr.total_found > last.tr.max_results
       THEN LastConv.state = NEEDS_CHOICE
       ELSE /\ LastConv.state = COMPLETED
            /\ resp.results = Take(LastConv.search_results, last.tr.max_results)

\* C8: on an affirmative reply in NEEDS_CONFIRM the candidates carried on are
\* exactly the relaxed candidates stored with the confirmation, and no search
\* runs.
C8_ConfirmCarriesRelaxedSet ==
  last.tr.branch = "confirm_yes"
  => /\ Ids(LastConv.search_results) = Ids(last.tr.pre.search_results)
     /\ last.tr.searches = 0

\* C9: an option selection never calls the search again: the results and the
\* next options come from the stored candidates only.
C9_SelectionNeverSearches ==
  Selecting
  => /\ last.tr.searches = 0
     /\ ~last.tr.parsed
     /\ Ids(resp.results) \subseteq Ids(last.tr.pre.search_results)
     /\ Ids(LastConv.search_results) \subseteq Ids(last.tr.pre.search_results)

\* a selection that left more than max_results candidates and went on to the
\* next question
C9_Witness ==
  /\ Selecting
  /\ last.tr.entered_search
  /\ Len(LastConv.search_results) > last.tr.max_results
  /\ LastConv.state = NEEDS_CHOICE

\* C10: every option offered in a turn carries its ids, and its count is the
\* number of those ids.
C10_OptionsCarryIdsAndCount ==
  \A i \in 1..Len(resp.options) :
    resp.options[i].hasIds /\ resp.options[i].count = Cardinality(resp.options[i].ids)

SelectedWithoutIds == Selecting /\ ~(last.tr.selected.hasIds /\ last.tr.selected.ids # {})

C13_EveryTurnAnswersNormally == resp.status = 200

\* the edges of the session state machine
StateEdges ==
  { << INITIAL, SEARCHING >>,
    << SEARCHING, NEEDS_CHOICE >>, << SEARCHING, NEEDS_CONFIRM >>, << SEARCHING, COMPLETED >>,
    << NEEDS_CHOICE, SEARCHING >>, << NEEDS_CHOICE, COMPLETED >>,
    << NEEDS_CONFIRM, SEARCHING >>, << NEEDS_CONFIRM, COMPLETED >>,
    << COMPLETED, SEARCHING >> }

RECURSIVE StatesAlongEdges(_)
\* the states a session reaches from the states S along one edge or more
StatesAlongEdges(S) ==
  IF {e[2] : e \in {x \in StateEdges : x[1] \in S}} \subseteq S THEN S
  ELSE StatesAlongEdges(S \cup {e[2] : e \in {x \in StateEdges : x[1] \in S}})

\* C14: a turn changes the state of its session only along the edges of the
\* state machine: the state after the turn is the state before it, or is
\* reached from it by a path of edges.
C14_StateChangesFollowEdges ==
  last.sid # NoneStr
  => \/ LastConv.state = last.tr.pre.state
     \/ LastConv.state \in
          StatesAlongEdges({e[2] : e \in {x \in StateEdges : x[1] = last.tr.pre.state}})

\* the query and the intent the search step of the last turn worked with
SearchedQuery == last.tr.at_search.current_query

SearchedIntent == Deref(intents, last.tr.at_search.intent_result)

\* the last turn ran the AND search and the strict gate: a query, not a
\* selection or a confirmation going on with stored candidates
SearchedWithAnd ==
  /\ last.tr.branch \in {"query", "reset_query"}
  /\ last.tr.entered_search
  /\ clients.logic = "AND"

\* the strict AND search of the last turn was empty, or its file-name gate
\* failed
StrictFailed ==
  \/ search(SearchedQuery, "AND", SearchedIntent) = << >>
  \/ strict_and_count(SearchedQuery) <= 0

\* the terms the strict file-name gate of the last turn found in no file name
StrictRemovedTerms ==
  IF search(SearchedQuery, "AND", SearchedIntent) # << >> /\ strict_and_count(SearchedQuery) <= 0
    THEN SelectSeq(strict_terms(SearchedQuery), LAMBDA t : strict_term_count(t) <= 0)
    ELSE << >>

\* what the relaxation of the last turn returned
Relaxed == search_and_relax(SearchedQuery, SearchedIntent, StrictRemovedTerms)

\* the relaxation ran in the last turn and returned candidates
RelaxedNonEmpty ==
  /\ SearchedWithAnd /\ StrictFailed
  /\ Len(_extract_keywords(SearchedQuery)) > 1
  /\ deduplicate_results(Relaxed.results) # << >>

\* C15: in the search step with AND logic, when the strict AND search is
\* empty or the file-name gate fails and the relaxation returns candidates,
\* the turn ends in NEEDS_CONFIRM and the response names the dropped terms.
C15_RelaxedResultAsksConfirmation ==
  RelaxedNonEmpty
  => /\ LastConv.state = NEEDS_CONFIRM
     /\ Len(resp.message) >= 2 /\ resp.message[1] = "confirm"
     /\ Range(Tail(resp.message)) \subseteq Range(SearchedQuery)

\* the text v, or a hint of the set hints that is part of v, appears in a
\* word of the message raw_q
AppearsIn(v, hints, raw_q) ==
  \E i \in 1..Len(raw_q) :
    \/ SubStr(v, raw_q[i])
    \/ \E h \in hints : SubStr(h, v) /\ SubStr(h, raw_q[i])

\* C16: every AND term of the search of a turn is a keyword of the user's
\* message or an inferred brand or type that appears in the message: an
\* inferred value that does not appear there is not searched for.
C16_SearchTermsAreNamedInMessage ==
  (last.tr.parsed /\ last.tr.searches >= 1)
  => \A t \in Range(SearchKeywords(SearchedQuery, SearchedIntent)) :
       \/ t \in Range(SearchedQuery)
       \/ AppearsIn(t, BrandHintTokens \cup ChatTypeHintTokens, SearchedQuery)

\* ------------------------------------------- search_and_relax on its own
\* the longest query handed to the relaxation
MaxRelaxTerms == 4

\* the terms of those queries: with and without documents, generic,
\* protected, and the term the relaxation replaces by a wider one
RelaxTerms == {"AirCon", "Pin", "PinDiagram", "KL", "CircuitDiagram", "Unknown"}

\* queries of distinct terms (search_and_relax removes the duplicates)
RelaxQueries ==
  {q \in UNION {[1..n -> RelaxTerms] : n \in 1..MaxRelaxTerms} :
     \A i, j \in 1..Len(q) : q[i] = q[j] => i = j}

\* no intent, or an intent that names a brand
RelaxIntents == {NoIntent, IntentResult("Dongfeng", NoneStr, << >>)}

\* the data sets loaded: all documents, or the documents that match no Pin
RelaxCatalogs == {AllIds, AllIds \ term_index["Pin"]}

\* what a call holds before it has returned
NoReturn ==
  [ results |-> << >>,
    meta |-> [original_keywords |-> << >>, used_keywords |-> << >>,
              removed_keywords |-> << >>] ]

\* the calls of search_and_relax: nothing is forced out, or a term is; at
\* is where the call stands, remaining and removed are its local lists,
\* steps the rounds of its loop so far and before what remaining was when
\* the last round began
RelaxCalls ==
  {[fn |-> "search_and_relax", query |-> q, intent |-> it, force_remove_terms |-> f,
    at |-> "called", original_terms |-> << >>, remaining |-> << >>, removed |-> << >>,
    steps |-> 0, before |-> << >>, out |-> NoReturn] :
     q \in RelaxQueries, it \in RelaxIntents, f \in {<< >>, << "AirCon" >>, << "KL" >>}}

RelaxInit ==
  /\ conversations = << >>
  /\ intents = << >>
  /\ resp = ChatResponse(<< >>, << >>, << >>, FALSE)
  /\ last = [sid |-> NoneStr, tr |-> Trace(ConversationState, << >>, 0),
             pre_intent |-> NoIntent, prev |-> NoPrev]
  /\ turns = 0
  /\ clients = [max_results |-> 1, logic |-> "AND"]
  /\ catalog \in RelaxCatalogs
  /\ call \in RelaxCalls

\* RelaxZeroPass, once z is known
RelaxZeroPass_z(kws, z) ==
  call' = [call EXCEPT !.at = "loop", !.original_terms = kws,
                       !.remaining = z.remaining, !.removed = z.removed]

\* RelaxZeroPass, once kws is known
RelaxZeroPass_kws(kws) ==
  RelaxZeroPass_z(kws,
                  ZeroPass(kws,
                           {t \in Range(kws) : term_to_ids(t) = {}}
                             \cup (Range(call.force_remove_terms) \cap Range(kws)),
                           << >>, << >>))

\* step 1 of search_and_relax: the keywords are extracted, the terms without
\* documents and the forced terms leave
RelaxZeroPass ==
  /\ call.fn = "search_and_relax" /\ call.at = "called"
  /\ RelaxZeroPass_kws(RelaxKeywords(call.query, call.intent))
  /\ UNCHANGED << conversations, intents, resp, last, turns, clients, catalog >>

\* RelaxDropStep, once drop is known
RelaxDropStep_drop(drop) ==
  call' = [call EXCEPT !.remaining = SelectSeq(@, LAMBDA t : t # drop),
                       !.removed = Append(@, drop),
                       !.steps = @ + 1,
                       !.before = call.remaining]

\* one round of the loop of step 2: nothing is hit and more than one term is
\* left, one term is dropped.  A call is followed for one round more than
\* it has terms.
RelaxDropStep ==
  /\ call.fn = "search_and_relax" /\ call.at = "loop"
  /\ intersect_ids(call.remaining) = {} /\ Len(call.remaining) > 1
  /\ call.steps <= Len(call.original_terms)
  /\ RelaxDropStep_drop(RelaxDrop(call.remaining))
  /\ UNCHANGED << conversations, intents, resp, last, turns, clients, catalog >>

\* the loop is left: search_and_relax returns the results and the meta
RelaxReturn ==
  /\ call.fn = "search_and_relax" /\ call.at = "loop"
  /\ ~(intersect_ids(call.remaining) = {} /\ Len(call.remaining) > 1)
  /\ call' = [call EXCEPT !.at = "returned",
                          !.out = search_and_relax_r(call.original_terms,
                                    [remaining |-> call.remaining,
                                     removed |-> call.removed])]
  /\ UNCHANGED << conversations, intents, resp, last, turns, clients, catalog >>

RelaxNext == RelaxZeroPass \/ RelaxDropStep \/ RelaxReturn

RelaxSpec == RelaxInit /\ [][RelaxNext]_vars

\* the call of search_and_relax has returned
Relaxation == call.fn = "search_and_relax" /\ call.at = "returned"

\* C17: search_and_relax terminates: its loop runs at most as many rounds
\* as the call has terms, each round dropping a term that was left; the
\* terms it returns as used are at most as many as the terms it started from.
C17_RelaxationTerminatesWithinTermCount ==
  call.fn = "search_and_relax"
  => /\ call.steps <= Len(call.original_terms)
     /\ Len(call.remaining) + call.steps <= Len(call.original_terms)
     /\ Relaxation
          => Len(call.out.meta.used_keywords) <= Len(call.out.meta.original_keywords)

\* a relaxation of four terms, each with documents, whose loop dropped two
\* of them and returned what the other two hit
C17_Witness ==
  /\ Relaxation
  /\ Len(call.out.meta.original_keywords) >= 4
  /\ call.steps >= 2
  /\ call.force_remove_terms = << >>
  /\ \A t \in Range(call.out.meta.original_keywords) : term_to_ids(t) # {}
  /\ call.out.results # << >>

\* C18: every term of the query that no loaded document matches is removed
\* by the relaxation: it is among the removed terms and not among the used
\* terms.
C18_ZeroHitTermsAreRemoved ==
  Relaxation
  => \A t \in Range(call.query) :
       term_to_ids(t) = {}
       => /\ t \in Range(call.out.meta.removed_keywords)
          /\ t \notin Range(call.out.meta.used_keywords)

\* ------------------------------------- merge_similar_options on its own
\* an option as merge_similar_options receives it: hasIds is FALSE when the
\* "ids" entry is missing, id is 0 when the "id" entry is missing
MergeOption(name, count, hasIds, ids, id) ==
  [name |-> name, count |-> count, hasIds |-> hasIds, ids |-> ids, id |-> id,
   type |-> "filename_prefix"]

\* the ids an option carries, in its "ids" list and its "id"
OptionIds(o) ==
  (IF o.hasIds THEN o.ids ELSE {}) \cup (IF o.id # 0 THEN {o.id} ELSE {})

\* the default of the parameter enabled_min_len, which the callers pass too
EnabledMinLen == 6

\* name_similarity(a, b) >= 0.5 over the words of the names: the larger of
\* the matcher's ratio 2 * M / (len(a) + len(b)) and of the overlap ratio
\* M / max(len(a), len(b)) is at least one half
name_similarity_reached(a, b) ==
  /\ a # NoneStr /\ b # NoneStr
  /\ \/ 4 * Cardinality(WordsOf(a) \cap WordsOf(b))
          >= Cardinality(WordsOf(a)) + Cardinality(WordsOf(b))
     \/ 2 * Cardinality(WordsOf(a) \cap WordsOf(b))
          >= Max(Cardinality(WordsOf(a)), Cardinality(WordsOf(b)))

RECURSIVE Cluster(_, _)
\* Cluster, once more is known
Cluster_more(options, S, more) ==
  IF more \subseteq S THEN S ELSE Cluster(options, S \cup more)

\* union / find: the indices joined with the indices S, directly or through
\* other options
Cluster(options, S) ==
  Cluster_more(options, S,
               {j \in 1..Len(options) :
                  \E i \in S : name_similarity_reached(options[i].name, options[j].name)})

\* the indices S of a list of n elements in ascending order
Ascending(n, S) == FilterSeq(Stored([i \in 1..n |-> i]), S)

\* _choose_group_name, once candidates is known
_choose_group_name_candidates(bases, candidates) ==
  IF candidates = << >> THEN bases[1]
  ELSE candidates[CHOOSE i \in 1..Len(candidates) :
                    \A j \in 1..Len(candidates) :
                      \/ Cardinality(WordsOf(candidates[j])) < Cardinality(WordsOf(candidates[i]))
                      \/ (Cardinality(WordsOf(candidates[j])) = Cardinality(WordsOf(candidates[i]))
                            /\ i <= j)]

\* _choose_group_name, once bases is known
_choose_group_name_bases(bases) ==
  IF bases = << >> THEN NoneStr
  ELSE IF Cardinality(Range(bases)) = 1 THEN bases[1]
  ELSE _choose_group_name_candidates(bases,
                                     SelectSeq(bases, LAMBDA b :
                                       \A k \in 1..Len(bases) : SubStr(b, bases[k])))

\* _choose_group_name: the common name, else the longest name that is part
\* of all the others, else the first name
_choose_group_name(names) ==
  _choose_group_name_bases(SelectSeq(names, LAMBDA n : n # NoneStr))

\* ids of "ids" lists only, without the "id" entries
merged_ids_of_lists(options, members) ==
  UNION {IF options[members[k]].hasIds THEN options[members[k]].ids ELSE {} :
           k \in 1..Len(members)}

\* the id_set of a group: the ids of the "ids" lists and the "id" entries
merged_ids(options, members) ==
  UNION {OptionIds(options[members[k]]) : k \in 1..Len(members)}

\* merged_group, once id_set is known
merged_group_id_set(options, members, id_set) ==
  IF id_set = {} THEN Stored([k \in 1..Len(members) |-> options[members[k]]])
  ELSE << [ name |-> _choose_group_name(Stored([k \in 1..Len(members) |->
                                                  options[members[k]].name])),
            count |-> Cardinality(id_set), hasIds |-> TRUE, ids |-> id_set, id |-> 0,
            type |-> options[members[1]].type ] >>

\* what one group adds to the output: the option itself, the members when
\* they carry no id at all, else one merged option
merged_group(options, members) ==
  IF Len(members) = 1 THEN << options[members[1]] >>
  ELSE merged_group_id_set(options, members, merged_ids(options, members))

\* merge_similar_options, once roots is known
merge_similar_options_roots(options, roots) ==
  Concat(Stored([k \in 1..Len(roots) |->
           merged_group(options,
                        Ascending(Len(options), Cluster(options, {roots[k]})))]))

\* merge_similar_options (similarity_threshold = 0.5, name_key = "name")
merge_similar_options(options, enabled_min_len) ==
  IF options = << >> \/ Len(options) < enabled_min_len THEN options
  ELSE merge_similar_options_roots(options,
         Ascending(Len(options),
                   {i \in 1..Len(options) : \A j \in Cluster(options, {i}) : i <= j}))

\* the longest list handed to merge_similar_options
MaxMergeOptions == 6

\* the options of those lists: similar names in a chain (D310 - D320 -
\* D320 series), ids that overlap, options with an "id" only, options
\* without any id, a name that occurs twice
MergePool ==
  { MergeOption("KL_D310", 2, TRUE, {1, 2}, 0), MergeOption("KL_D320", 2, TRUE, {2, 3}, 0),
    MergeOption("KL_D320_series", 1, FALSE, {}, 4), MergeOption("Heater", 1, FALSE, {}, 5),
    MergeOption("F8", 3, FALSE, {}, 0), MergeOption("F9", 2, FALSE, {}, 0),
    MergeOption("KL_D310", 1, TRUE, {6}, 0) }

\* lists of distinct options
MergeLists ==
  {l \in UNION {[1..n -> MergePool] : n \in 1..MaxMergeOptions} :
     \A i, j \in 1..Len(l) : l[i] = l[j] => i = j}

MergeCalls ==
  {[fn |-> "merge_similar_options", options |-> l, enabled_min_len |-> m,
    at |-> "called", out |-> << >>] : l \in MergeLists, m \in {2, EnabledMinLen}}

MergeInit ==
  /\ conversations = << >>
  /\ intents = << >>
  /\ resp = ChatResponse(<< >>, << >>, << >>, FALSE)
  /\ last = [sid |-> NoneStr, tr |-> Trace(ConversationState, << >>, 0),
             pre_intent |-> NoIntent, prev |-> NoPrev]
  /\ turns = 0
  /\ clients = [max_results |-> 1, logic |-> "AND"]
  /\ catalog = AllIds
  /\ call \in MergeCalls

\* merge_similar_options is called and returns
MergeReturn ==
  /\ call.fn = "merge_similar_options" /\ call.at = "called"
  /\ call' = [call EXCEPT !.at = "returned",
                          !.out = merge_similar_options(call.options, call.enabled_min_len)]
  /\ UNCHANGED << conversations, intents, resp, last, turns, clients, catalog >>

MergeSpec == MergeInit /\ [][MergeReturn]_vars

\* the call of merge_similar_options has returned
Merged == call.fn = "merge_similar_options" /\ call.at = "returned"

\* C19: after merge_similar_options the union of the ids of the options
\* returned is the union of the ids of the options given, and every option
\* the merge has built has a count equal to the number of its ids.
C19_MergeKeepsIdsAndCounts ==
  Merged
  => /\ UNION {OptionIds(call.out[k]) : k \in 1..Len(call.out)}
          = UNION {OptionIds(call.options[k]) : k \in 1..Len(call.options)}
     /\ \A k \in 1..Len(call.out) :
          call.out[k] \notin Range(call.options)
          => call.out[k].hasIds /\ call.out[k].count = Cardinality(call.out[k].ids)

\* a merge of six options that built one option out of options whose "ids"
\* overlap and of an option with an "id" only, and another out of options
\* of which one has an "id"
C19_Witness ==
  /\ Merged
  /\ call.enabled_min_len = EnabledMinLen
  /\ Len(call.out) < Len(call.options)
  /\ \E k \in 1..Len(call.out) :
       /\ call.out[k] \notin Range(call.options)
       /\ {1, 2, 3, 4} \subseteq call.out[k].ids
  /\ \E k \in 1..Len(call.out) :
       call.out[k] \notin Range(call.options) /\ 5 \in call.out[k].ids

\* ------------------------------------------- requests of several sessions
\* chat() is a coroutine without any await: the event loop runs a request
\* from its first statement to its response before it starts another, in
\* whatever order the requests of the clients come in.  A client sends its
\* next request after the response to its last one.
SessionIds == {"s1", "s2"}

\* the number of requests sent
MaxRequests == 3

NoRequest == [message |-> << >>, llm |-> NoAnswer, sent |-> FALSE]

\* a server that serves one session alone
AloneServer == [conv |-> ConversationState, heap |-> << >>]

\* a conversation with its intent, and the intents of its snapshots, in
\* place of the references to them
Conversation(c, heap) ==
  [c EXCEPT !.intent_result = Deref(heap, c.intent_result),
            !.state_history = Stored([k \in 1..Len(c.state_history) |->
                                [c.state_history[k] EXCEPT
                                   !.intent_result = Deref(heap, c.state_history[k].intent_result)]])]

SessionsInit ==
  /\ conversations = << >>
  /\ intents = << >>
  /\ resp = ChatResponse(<< >>, << >>, << >>, FALSE)
  /\ last = [sid |-> NoneStr, tr |-> Trace(ConversationState, << >>, 0),
             pre_intent |-> NoIntent, prev |-> NoPrev]
  /\ turns = 0
  /\ clients \in [max_results : MaxResultsValues, logic : LogicValues]
  /\ catalog = AllIds
  /\ call = [fn |-> "chat", pending |-> [s \in SessionIds |-> NoRequest],
             alone |-> [s \in SessionIds |-> AloneServer],
             served |-> [s \in SessionIds |-> 0], sent |-> 0, overlapped |-> 0]

\* the client of session s sends the request (message, llm is what the LLM
\* will answer for it)
Arrive(s, message, llm) ==
  /\ call.fn = "chat"
  /\ ~call.pending[s].sent
  /\ call.sent < MaxRequests
  /\ call' = [call EXCEPT !.pending[s] = [message |-> message, llm |-> llm, sent |-> TRUE],
                          !.sent = @ + 1]
  /\ UNCHANGED << conversations, intents, resp, last, turns, clients, catalog >>

ArriveQuery(s) == \E m \in {<< "KL" >>, << "Heater" >>} : Arrive(s, m, NoAnswer)

ArriveUndo(s) == Arrive(s, << "Undo" >>, NoAnswer)

ArriveLabel(s) ==
  /\ get_or_create_state(s).state = NEEDS_CHOICE
  /\ \E o \in Range(get_or_create_state(s).current_options) : Arrive(s, << o.label >>, NoAnswer)

\* Serve, once the answer of the server that serves s alone is known
Serve_alone(s, r) ==
  call' = [call EXCEPT !.pending[s] = NoRequest,
                       !.alone[s] = [conv |-> r.conv, heap |-> r.heap],
                       !.served[s] = @ + 1,
                       !.overlapped = @ + (IF \E x \in SessionIds \ {s} : call.pending[x].sent
                                           THEN 1 ELSE 0)]

\* the event loop runs chat() for the pending request of session s
Serve(s) ==
  /\ call.fn = "chat"
  /\ call.pending[s].sent
  /\ Turn_served(s, call.pending[s].message, call.pending[s].llm)
  /\ Serve_alone(s, chat(call.alone[s].conv, call.alone[s].heap, call.pending[s].message,
                         call.pending[s].llm, clients.max_results, clients.logic))

SessionsNext ==
  \E s \in SessionIds :
    \/ ArriveQuery(s)
    \/ ArriveUndo(s)
    \/ ArriveLabel(s)
    \/ Serve(s)

SessionsSpec == SessionsInit /\ [][SessionsNext]_vars

MaxLongTurns == 12

LongQueries == { << "AirCon", "DashDiagram", "Pin" >>, << "AirCon", "Pin" >> }

LongAnswers == { << "KL" >> }

LongQuery(s) ==
  /\ turns < MaxLongTurns
  /\ get_or_create_state(s).state \in {INITIAL, COMPLETED}
  /\ \E m \in LongQueries : \E llm \in LLMAnswersFor(m) : Turn_served(s, m, llm)
  /\ UNCHANGED call

LongAnswer(s) ==
  /\ turns < MaxLongTurns
  /\ get_or_create_state(s).state = NEEDS_CONFIRM
  /\ \E m \in LongAnswers : Turn_served(s, m, NoAnswer)
  /\ UNCHANGED call

LongUndo(s) ==
  /\ turns < MaxLongTurns
  /\ Turn_served(s, << "Undo" >>, NoAnswer)
  /\ UNCHANGED call

LongNext == \E s \in Sessions : LongQuery(s) \/ LongAnswer(s) \/ LongUndo(s)

LongSpec == Init /\ [][LongNext]_vars

\* the last turn took a snapshot of a conversation whose undo stack was full
PushedOnFull ==
  /\ last.tr.branch \in SnapshotBranches
  /\ last.tr.pre.state \notin {INITIAL, COMPLETED}
  /\ Len(last.tr.pre.state_history) = MaxSnapshots

\* C21: the undo stack of a session never holds more than 10 snapshots, and
\* a snapshot pushed onto a full stack takes the place of the oldest one:
\* the stack is then the old one without its first snapshot, followed by the
\* snapshot of the conversation the turn started from.
C21_UndoStackHoldsAtMostTen ==
  /\ \A s \in DOMAIN conversations : Len(conversations[s].state_history) <= 10
  /\ (PushedOnFull /\ LastConv.state_history # << >>)
     => LastConv.state_history
          = Append(Tail(last.tr.pre.state_history), Snapshot(last.tr.pre))

\* a snapshot was pushed onto a stack of 10 snapshots
C21_Witness ==
  /\ PushedOnFull
  /\ Len(LastConv.state_history) = 10
  /\ LastConv.state_history[1] = last.tr.pre.state_history[2]
  /\ LastConv.state_history[1] # last.tr.pre.state_history[1]

\* the term the last round of the loop dropped
Dropped == call.removed[Len(call.removed)]

\* the last round of the loop began with n terms or more
RoundOf(n) ==
  call.fn = "search_and_relax" /\ call.steps >= 1 /\ Len(call.before) >= n

\* the combinability of the term t of the list the last round began with
Combinability(t) ==
  Cardinality({j \in 1..Len(call.before) :
     call.before[j] # t /\ term_to_ids(t) \cap term_to_ids(call.before[j]) # {}})

\* the terms of lowest combinability of that list
LeastCombinable ==
  {t \in Range(call.before) : \A u \in Range(call.before) : Combinability(t) <= Combinability(u)}

\* C22: in a round of the relaxation that begins with more than 3 terms, the
\* term dropped is one of lowest combinability; if a generic term is among
\* those, a generic one is dropped, and the term dropped is the last, in the
\* order of the terms, of the terms it was preferred among.
C22_LeastCombinableTermIsDropped ==
  RoundOf(4)
  => /\ Dropped \in LeastCombinable
     /\ LeastCombinable \cap generic_terms # {} => Dropped \in generic_terms
     /\ Dropped = LastIn(call.before,
                         IF LeastCombinable \cap generic_terms # {}
                           THEN LeastCombinable \cap generic_terms ELSE LeastCombinable)

\* C23: in a round of the relaxation that begins with 3 terms or fewer, a
\* protected term (a brand hint, a model or a series code) is dropped only
\* when every term of the round is protected.
C23_ProtectedTermOutlivesUnprotected ==
  (RoundOf(1) /\ Len(call.before) <= 3 /\ protected(Dropped))
  => \A t \in Range(call.before) : protected(t)

\* a round of 3 terms whose last term is protected and which dropped an
\* unprotected, not generic, term from further up
C23_Witness ==
  /\ RoundOf(3) /\ Len(call.before) = 3
  /\ protected(call.before[3])
  /\ ~protected(Dropped) /\ Dropped \notin generic_terms
  /\ call.before[3] \in Range(call.remaining)

\* C24: merge_similar_options never merges an option without an "ids" list
\* into a group: every such option of the list given is in the list
\* returned, unchanged.
C24_OptionWithoutIdsIsNeverMerged ==
  Merged
  => \A k \in 1..Len(call.options) :
       ~call.options[k].hasIds => call.options[k] \in Range(call.out)

\* the dimensions recorded in the filter history of the last conversation
DimensionsAsked ==
  {LastConv.filter_history[k].type : k \in 1..Len(LastConv.filter_history)}

\* C25: a question that offers the values of a dimension (not the list of
\* the documents themselves) is never about a dimension that the filter
\* history of the conversation already records.
C25_AskedDimensionIsNotAskedAgain ==
  (last.sid # NoneStr /\ resp.needs_choice /\ last.tr.builder # NoneStr
     /\ LastConv.option_type # "result")
  => LastConv.option_type \notin DimensionsAsked

\* --------------------------------------------- a user who always chooses
\* A conversation in which the user answers every question with the label
\* of one of its options, and asks something when there is no question.
MaxChoiceTurns == 4

ChoiceQuery(s) ==
  /\ turns < MaxChoiceTurns
  /\ get_or_create_state(s).state # NEEDS_CHOICE
  /\ \E m \in Queries : \E llm \in LLMAnswersFor(m) : Turn_served(s, m, llm)
  /\ UNCHANGED call

ChoiceLabel(s) ==
  /\ turns < MaxChoiceTurns
  /\ get_or_create_state(s).state = NEEDS_CHOICE
  /\ \E o \in Range(get_or_create_state(s).current_options) :
       Turn_served(s, << o.label >>, NoAnswer)
  /\ UNCHANGED call

ChoiceNext == \E s \in Sessions : ChoiceQuery(s) \/ ChoiceLabel(s)

ChoiceSpec == Init /\ [][ChoiceNext]_vars

C27_ChoiceStateCarriesItsOptions ==
  (last.sid # NoneStr /\ LastConv.state = NEEDS_CHOICE)
  => /\ Len(LastConv.current_options) >= 2
     /\ resp.options = LastConv.current_options
     /\ resp.needs_choice

\* C28: after every turn the state stored for a session is INITIAL,
\* NEEDS_CHOICE, NEEDS_CONFIRM or COMPLETED, never SEARCHING or FILTERING.
C28_NoTransientStateIsStored ==
  \A s \in DOMAIN conversations :
    conversations[s].state \in {INITIAL, NEEDS_CHOICE, NEEDS_CONFIRM, COMPLETED}

\* a turn that set SEARCHING, searched, and ended with results sent
C28_Witness ==
  /\ last.tr.entered_search /\ last.tr.searches >= 1
  /\ last.tr.pre.state \in {NEEDS_CHOICE, COMPLETED}
  /\ resp.results # << >>
  /\ LastConv.state = COMPLETED

\* the ids an option stored in a conversation lists: its "ids" and its "id"
ListedIds(o) == (IF o.hasIds THEN o.ids ELSE {}) \cup (IF o.id # 0 THEN {o.id} ELSE {})

\* C29: whenever a session is in NEEDS_CHOICE, right after an undo too,
\* every id an option stored in it lists is the id of one of the candidates
\* stored in it.
C29_OptionIdsAreCandidates ==
  \A s \in DOMAIN conversations :
    conversations[s].state = NEEDS_CHOICE
    => \A k \in 1..Len(conversations[s].current_options) :
         ListedIds(conversations[s].current_options[k])
           \subseteq Ids(conversations[s].search_results)

\* an undo brought the session back to a question whose options list ids,
\* after a selection had narrowed the candidates
C29_Witness ==
  /\ last.tr.branch = "undo"
  /\ last.prev.branch \in {"select_label", "select_text"}
  /\ LastConv.state = NEEDS_CHOICE
  /\ Len(LastConv.current_options) >= 2
  /\ \A k \in 1..Len(LastConv.current_options) : ListedIds(LastConv.current_options[k]) # {}
  /\ Len(last.tr.pre.search_results) < Len(LastConv.search_results)

\* C30: a turn served for one session id leaves what is stored for every
\* other session id as it was: its state, candidates, options, histories
\* and undo stack, and the intents they refer to.
C30_TurnLeavesOtherSessionsAlone ==
  [][\A s \in DOMAIN conversations :
       s # last'.sid
       => /\ s \in DOMAIN conversations'
          /\ Conversation(conversations'[s], intents') = Conversation(conversations[s], intents)]_vars

\* a turn of one session was served while the other session was waiting in
\* a question, with options, candidates and a snapshot stored
C30_Witness ==
  /\ call.fn = "chat"
  /\ \E s \in DOMAIN conversations :
       /\ s # last.sid
       /\ last.sid \in DOMAIN conversations
       /\ conversations[s].state = NEEDS_CHOICE
       /\ conversations[s].state_history # << >>
       /\ conversations[s].search_results # << >>
       /\ conversations[last.sid].message_history # << >>

====
